---- MODULE Spec2Model ----
(***************************************************************************)
(* A model of the colour-grading engine of gemini-agent-v3:                *)
(*   core/lut_engine.py   LUTEngine (index, loader cache, apply_lut)       *)
(*   core/smart_planner.py SmartPlanner.generate_plan (plan safety checks) *)
(*   main.py              the caller that hands a plan to apply_lut        *)
(*   agent.py             VersionManager (backups, update, restore)        *)
(*   core/security.py     execute_safe_command (the command whitelist)     *)
(*   core/memory_manager.py MemoryManager (the remembered preferences)     *)
(*                                                                         *)
(* Strings of the program are sequences of one-character strings, so that  *)
(* lower(), basename(), endswith(), the "in" substring test and difflib's  *)
(* similarity ratio are computed as Python computes them.  Numbers with a  *)
(* fractional part are integers in hundredths (0.35 is 35, 1.0 is 100).    *)
(***************************************************************************)
EXTENDS Integers, Sequences, FiniteSets, TLC

VARIABLES
    rootExists,   \* whether the directory lut_dir exists on disk
    files,        \* the files on disk: path -> "good" | "bad" (unparsable)
    lut_index,    \* LUTEngine.lut_index: lowercased basename -> Seq(path)
    cache,        \* lru_cache of _get_lut_object: Seq(path), least recent first
    last,         \* the most recent call of the engine and what it returned
    objects,      \* the transform objects load_cube_file has made and the
                  \* cache holds, and the paths in the order of their last use
    scan,         \* a _build_index that is between its clear() and its end
    threads,      \* the calls of apply_lut that run in threads of their own
    pixel,        \* an RGB pixel on its way through _apply_curve
    versions,     \* agent.py's source file, its backups, VersionManager
    shell,        \* what execute_safe_command was asked and what it ran
    memory        \* MemoryManager.data and its memory file

\* The engine, and the tools of the agent around it.
engine == <<rootExists, files, lut_index, cache, last, objects, scan, threads>>
tools == <<pixel, versions, shell, memory>>

vars == <<rootExists, files, lut_index, cache, last, objects, scan, threads,
          pixel, versions, shell, memory>>

(***************************************************************************)
(* Text.                                                                   *)
(***************************************************************************)

\* The characters in use, in code-point order (Python compares str by code point).
CharOrder ==
    <<".", "/", "B", "C", "E", "G", "L", "O", "R", "S", "U",
      "a", "b", "c", "e", "g", "l", "o", "r", "s", "t", "u", "w", "x", "z">>

Ord(c) == CHOOSE i \in 1..Len(CharOrder) : CharOrder[i] = c

\* str.lower() on one character.
LowerChar(c) ==
    CASE c = "B" -> "b" [] c = "C" -> "c" [] c = "E" -> "e" [] c = "G" -> "g"
      [] c = "L" -> "l" [] c = "O" -> "o" [] c = "R" -> "r" [] c = "S" -> "s"
      [] c = "U" -> "u" [] OTHER -> c

\* str.lower()
Lower(s) == [i \in 1..Len(s) |-> LowerChar(s[i])]

\* os.path.basename: what follows the last "/".
Basename(p) ==
    LET slashes == {i \in 1..Len(p) : p[i] = "/"}
        cut == IF slashes = {} THEN 0
               ELSE CHOOSE i \in slashes : \A j \in slashes : j <= i
    IN  SubSeq(p, cut + 1, Len(p))

\* os.path.dirname: what precedes the last "/".
Dirname(p) ==
    LET slashes == {i \in 1..Len(p) : p[i] = "/"}
        cut == IF slashes = {} THEN 0
               ELSE CHOOSE i \in slashes : \A j \in slashes : j <= i
    IN  SubSeq(p, 1, cut - 1)

\* str.endswith
EndsWith(s, suffix) ==
    /\ Len(suffix) <= Len(s)
    /\ SubSeq(s, Len(s) - Len(suffix) + 1, Len(s)) = suffix

\* the substring test "sub in s"
Contains(s, sub) ==
    \E i \in 0..(Len(s) - Len(sub)) : SubSeq(s, i + 1, i + Len(sub)) = sub

\* Python's < on str: lexicographic by code point, a proper prefix is smaller.
StrLess(a, b) ==
    \E i \in 1..(Len(b)) :
        /\ i <= Len(a) + 1
        /\ \A j \in 1..(i - 1) : a[j] = b[j]
        /\ \/ i = Len(a) + 1
           \/ i <= Len(a) /\ Ord(a[i]) < Ord(b[i])

(***************************************************************************)
(* The disk.                                                               *)
(***************************************************************************)

CubeExt == <<".", "c", "u", "b", "e">>

\* LUTEngine.lut_dir, the root that is scanned: "l"
lut_dir == <<"l">>

\* "l/SLog.cube": a log-marked LUT at the root
PathSLog == <<"l", "/", "S", "L", "o", "g">> \o CubeExt
\* "l/slog.cube": the same name in another letter case, same directory
PathSlogLower == <<"l", "/", "s", "l", "o", "g">> \o <<".", "c", "u", "b", "e">>
\* "l/s/Raw.CUBE": a raw-marked LUT in a subdirectory, upper-case extension
PathRaw == <<"l", "/", "s", "/", "R", "a", "w", ".", "C", "U", "B", "E">>
\* "l/a.txt": not a LUT file
PathTxt == <<"l", "/", "a", ".", "t", "x", "t">>

\* The files that may exist under lut_dir.
Paths == {PathSLog, PathSlogLower, PathRaw, PathTxt}

\* The files whose content may be unparsable.
Corruptible == {PathSLog}

\* "./": the current directory, spelled out in front of a relative path
DotSlash == <<".", "/">>

\* The file a path names: "./l/SLog.cube" is the file "l/SLog.cube".
Real(p) ==
    IF Len(p) > 2 /\ SubSeq(p, 1, 2) = DotSlash THEN SubSeq(p, 3, Len(p)) ELSE p

\* os.path.exists
Exists(p) ==
    LET q == Real(p)
    IN  \/ q \in DOMAIN files
        \/ rootExists /\ q = lut_dir
        \/ \E f \in DOMAIN files : Dirname(f) = q


\* What the disk can hold at a path: "a.txt" never parses as a LUT.
Contents(p) ==
    IF p = PathTxt THEN {"bad"}
    ELSE IF p \in Corruptible THEN {"good", "bad"} ELSE {"good"}

\* The states of the disk.
Disks ==
    {d \in UNION {[S -> {"good", "bad"}] : S \in SUBSET Paths} :
        \A p \in DOMAIN d : d[p] \in Contents(p)}

\* The sequences that list every element of S once.
Perms(S) ==
    {s \in [1..Cardinality(S) -> S] : \A i, j \in 1..Cardinality(S) : s[i] = s[j] => i = j}

(***************************************************************************)
(* The names handed to the engine.                                         *)
(***************************************************************************)

\* "SLOG.cube": the log LUT's name in another letter case
IdSlogUpper == <<"S", "L", "O", "G", ".", "c", "u", "b", "e">>
\* "slog.cub": one character short of a key
IdSlogShort == <<"s", "l", "o", "g", ".", "c", "u", "b">>
\* "x/Raw.cube": a directory that does not exist, the raw LUT's name
IdRawDir == <<"x", "/", "R", "a", "w", ".", "c", "u", "b", "e">>
\* "row.cube": close to "raw.cube", less close to "slog.cube"
IdRow == <<"r", "o", "w", ".", "c", "u", "b", "e">>
\* "zz": close to nothing
IdNone == <<"z", "z">>
\* "./l/SLog.cube": the file l/SLog.cube by another spelling of its path
IdDotPath == DotSlash \o PathSLog

\* The LUT identifiers handed to apply_lut.
Idents == {PathSLog, IdSlogUpper, IdSlogShort, IdRawDir, IdRow, IdNone}

(***************************************************************************)
(* difflib.SequenceMatcher(a = key, b = word) and get_close_matches.       *)
(***************************************************************************)

\* find_longest_match over the whole of a and b: the longest common block,
\* of those the one starting earliest in a, of those earliest in b.
\* (autojunk only acts on sequences of 200 elements and more.)
LongestMatch(a, b) ==
    LET blocks == {t \in (1..Len(a)) \X (1..Len(b)) \X (1..Len(a)) :
                      /\ t[1] + t[3] - 1 <= Len(a)
                      /\ t[2] + t[3] - 1 <= Len(b)
                      /\ SubSeq(a, t[1], t[1] + t[3] - 1)
                           = SubSeq(b, t[2], t[2] + t[3] - 1)}
    IN  IF blocks = {} THEN <<1, 1, 0>>
        ELSE CHOOSE t \in blocks : \A u \in blocks :
                \/ u[3] < t[3]
                \/ u[3] = t[3] /\ t[1] < u[1]
                \/ u[3] = t[3] /\ t[1] = u[1] /\ t[2] <= u[2]

\* The sum of the sizes of get_matching_blocks: the longest block, then the
\* same to the left of it and to the right of it.
RECURSIVE MatchCount(_, _)
MatchCount(a, b) ==
    IF Len(a) = 0 \/ Len(b) = 0 THEN 0
    ELSE LET m == LongestMatch(a, b)
         IN  IF m[3] = 0 THEN 0
             ELSE m[3]
                  + MatchCount(SubSeq(a, 1, m[1] - 1), SubSeq(b, 1, m[2] - 1))
                  + MatchCount(SubSeq(a, m[1] + m[3], Len(a)),
                               SubSeq(b, m[2] + m[3], Len(b)))

\* How often c occurs in s.
Occurrences(s, c) == Cardinality({i \in 1..Len(s) : s[i] = c})

\* quick_ratio's count: the size of the multiset intersection of a and b.
QuickCount(a, b) ==
    LET chars == {b[i] : i \in 1..Len(b)}
        RECURSIVE Sum(_)
        Sum(S) == IF S = {} THEN 0
                  ELSE LET c == CHOOSE x \in S : TRUE
                           na == Occurrences(a, c)
                           nb == Occurrences(b, c)
                       IN  (IF na < nb THEN na ELSE nb) + Sum(S \ {c})
    IN  Sum(chars)

\* real_quick_ratio's count: min(len(a), len(b)).
RealQuickCount(a, b) == IF Len(a) < Len(b) THEN Len(a) ELSE Len(b)

\* cutoff = 0.6 of get_close_matches, in hundredths.
Cutoff == 60

\* _calculate_ratio(matches, length) >= cutoff, that is 2.0 * matches / length
\* >= 0.6 (1.0 when length is 0).
RatioAtLeastCutoff(matches, length) ==
    IF length = 0 THEN TRUE ELSE 200 * matches >= Cutoff * length

\* (score, x) > (score', x') on the tuples get_close_matches ranks.
Better(a1, m1, a2, m2, word) ==
    LET t1 == Len(a1) + Len(word)
        t2 == Len(a2) + Len(word)
    IN  \/ m1 * t2 > m2 * t1
        \/ m1 * t2 = m2 * t1 /\ StrLess(a2, a1)

\* The keys a scan can register and the names a lookup can ask for.
KeyNames == {Lower(Basename(p)) : p \in Paths}
LookupNames == {Lower(Basename(id)) : id \in Idents}

\* MatchCount for every key and every name looked up.
MatchCounts == [x \in KeyNames, w \in LookupNames |-> MatchCount(x, w)]

\* The count SequenceMatcher(a = x, b = word) finds.
Matches(x, word) == MatchCounts[x, word]

\* get_close_matches without its cutoff: the best key, however far.
GetCloseMatchesNoCutoff(word, possibilities) ==
    IF possibilities = {} THEN <<>>
    ELSE <<CHOOSE x \in possibilities : \A y \in possibilities \ {x} :
               Better(x, Matches(x, word), y, Matches(y, word), word)>>

\* difflib.get_close_matches(word, possibilities, n=1, cutoff=0.6): the
\* result list, empty or holding the one best key.
GetCloseMatches(word, possibilities) ==
    LET close == {x \in possibilities :
                     /\ RatioAtLeastCutoff(RealQuickCount(x, word), Len(x) + Len(word))
                     /\ RatioAtLeastCutoff(QuickCount(x, word), Len(x) + Len(word))
                     /\ RatioAtLeastCutoff(Matches(x, word), Len(x) + Len(word))}
    IN  IF close = {} THEN <<>>
        ELSE <<CHOOSE x \in close : \A y \in close \ {x} :
                   Better(x, Matches(x, word), y, Matches(y, word), word)>>

(***************************************************************************)
(* LUTEngine: the index.                                                   *)
(***************************************************************************)

\* defaultdict(list)(): a dict keeps its keys in insertion order, so the
\* index is the sequence of its items [key, paths].
EmptyIndex == <<>>

\* list(self.lut_index.keys())
IndexKeys(idx) == [i \in 1..Len(idx) |-> idx[i].key]

\* key in self.lut_index
HasKey(idx, key) == \E i \in 1..Len(idx) : idx[i].key = key

\* self.lut_index[key], for a key the index holds
IndexAt(idx, key) == idx[CHOOSE i \in 1..Len(idx) : idx[i].key = key].paths

\* Line 27 testing f.endswith('.cube'), the letter case of f as it is.
RegisterCaseSensitive(idx, full_path) ==
    LET f == Basename(full_path)
        key == Lower(f)
    IN  IF ~EndsWith(f, CubeExt) THEN idx
        ELSE IF HasKey(idx, key)
             THEN [i \in 1..Len(idx) |->
                      IF idx[i].key = key
                      THEN [key |-> key, paths |-> Append(idx[i].paths, full_path)]
                      ELSE idx[i]]
             ELSE Append(idx, [key |-> key, paths |-> <<full_path>>])

\* self.lut_index[f.lower()].append(full_path), for a file the filter admits
Register(idx, full_path) ==
    LET f == Basename(full_path)
        key == Lower(f)
    IN  IF ~EndsWith(Lower(f), CubeExt) THEN idx
        ELSE IF HasKey(idx, key)
             THEN [i \in 1..Len(idx) |->
                      IF idx[i].key = key
                      THEN [key |-> key, paths |-> Append(idx[i].paths, full_path)]
                      ELSE idx[i]]
             ELSE Append(idx, [key |-> key, paths |-> <<full_path>>])

\* The loop of _build_index over the files in the order os.walk yields them.
RECURSIVE RegisterAll(_, _)
RegisterAll(idx, order) ==
    IF order = <<>> THEN idx
    ELSE RegisterAll(Register(idx, Head(order)), Tail(order))

\* A walk that comes through the root directory a second time.
WalkOrdersRevisit(disk) ==
    LET top == {p \in DOMAIN disk : Dirname(p) = lut_dir}
        sub == DOMAIN disk \ top
    IN  {a \o b \o a : a \in Perms(top), b \in Perms(sub)}

\* os.walk(lut_dir): top-down, the files of a directory in any order, the
\* directory's own files before those of its subdirectories.
WalkOrders(disk) ==
    LET top == {p \in DOMAIN disk : Dirname(p) = lut_dir}
        sub == DOMAIN disk \ top
    IN  {a \o b : a \in Perms(top), b \in Perms(sub)}

\* _build_index, with the order of the walk given
BuildIndexResult(exists, order) ==
    IF ~exists THEN EmptyIndex ELSE RegisterAll(EmptyIndex, order)

\* list_luts
RECURSIVE ListLutsResult(_)
ListLutsResult(idx) ==
    IF idx = <<>> THEN <<>> ELSE Head(idx).paths \o ListLutsResult(Tail(idx))

(***************************************************************************)
(* Argument values: what a caller (a model's JSON) may hand over where a    *)
(* number is expected.                                                     *)
(***************************************************************************)

\* a float or int, in hundredths
Num(v) == [k |-> "num", v |-> v]
\* a str that float() parses, such as "0.8"
NumStr(v) == [k |-> "numstr", v |-> v]
\* a str that float() rejects, such as "high"
Text == [k |-> "text", v |-> 0]

\* float(x) returns rather than raises
CanFloat(x) == x.k \in {"num", "numstr"}

\* float(x)
Float(x) == x.v

\* x != n, for a number n: a str never equals a number
NotEqual(x, n) == ~(x.k = "num" /\ x.v = n)

(***************************************************************************)
(* Images.  An image is the sequence of the operations applied to the      *)
(* pixels of the opened source image; None is the null image.              *)
(***************************************************************************)

Op(name, a, b, curve, lut) == [op |-> name, a |-> a, b |-> b, curve |-> curve, lut |-> lut]

NullImage == [null |-> TRUE, ops |-> <<>>]

Image(ops) == [null |-> FALSE, ops |-> ops]

\* A stage that has raised carries ok = FALSE to the handler of line 164.
Raised == [ok |-> FALSE, img |-> <<>>]

\* PIL.ImageEnhance.<name>(img).enhance(factor): Image.blend takes a float only
Enhance(st, name, factor) ==
    IF ~st.ok THEN st
    ELSE IF factor.k # "num" THEN Raised
    ELSE [ok |-> TRUE, img |-> Append(st.img, Op(name, factor.v, 0, "", <<>>))]

\* _adjust_white_balance, called with temp_val or tint_val not 0
AdjustWhiteBalance(st, temp_val, tint_val) ==
    IF ~st.ok THEN st
    ELSE IF temp_val.k # "num" \/ tint_val.k # "num" THEN Raised
    ELSE [ok |-> TRUE,
          img |-> Append(st.img, Op("WhiteBalance", temp_val.v, tint_val.v, "", <<>>))]

\* Lines 102-112 of apply_lut: the tone corrections on the opened image.
ToneStage(a) ==
    LET s0 == [ok |-> TRUE, img |-> <<>>]
        s1 == IF NotEqual(a.brightness, 100)
              THEN Enhance(s0, "Brightness", a.brightness) ELSE s0
        s2 == IF s1.ok /\ (NotEqual(a.temperature, 0) \/ NotEqual(a.tint, 0))
              THEN AdjustWhiteBalance(s1, a.temperature, a.tint) ELSE s1
        s3 == IF s2.ok /\ NotEqual(a.contrast, 100)
              THEN Enhance(s2, "Contrast", a.contrast) ELSE s2
        s4 == IF s3.ok /\ NotEqual(a.saturation, 100)
              THEN Enhance(s3, "Color", a.saturation) ELSE s3
    IN  s4

\* The curves that _apply_curve builds a table for.
CurveNames == {"S-Curve", "Soft-High", "Lift-Shadow"}

\* _apply_curve
ApplyCurve(img, curve_type) ==
    IF curve_type = "Linear" \/ curve_type = "" THEN img
    ELSE IF curve_type \in CurveNames
         THEN Append(img, Op("Curve", 0, 0, curve_type, <<>>))
         ELSE img

(***************************************************************************)
(* Name resolution, lines 119-130 of apply_lut.                            *)
(***************************************************************************)

\* self.lut_index.get(lookup_name), when it is a non-empty list
Candidates(idx, lookup_name) ==
    IF HasKey(idx, lookup_name) THEN IndexAt(idx, lookup_name) ELSE <<>>

\* The fuzzy step, lines 128-130.
FuzzyStep(idx, lookup_name) ==
    LET all_keys == {idx[i].key : i \in 1..Len(idx)}
        matches == GetCloseMatches(lookup_name, all_keys)
    IN  IF matches # <<>>
        THEN [found |-> TRUE, path |-> IndexAt(idx, matches[1])[1],
              steps |-> <<"exists", "index", "fuzzy">>]
        ELSE [found |-> FALSE, path |-> <<>>,
              steps |-> <<"exists", "index", "fuzzy">>]

\* Lines 123-126 taking candidates[-1], the path registered last.
IndexStepLast(idx, lut_name_or_path) ==
    LET lookup_name == Lower(Basename(lut_name_or_path))
        candidates == Candidates(idx, lookup_name)
    IN  IF candidates # <<>>
        THEN [found |-> TRUE, path |-> candidates[Len(candidates)],
              steps |-> <<"exists", "index">>]
        ELSE FuzzyStep(idx, lookup_name)

\* The index step, lines 123-126, falling through to the fuzzy step.
IndexStep(idx, lut_name_or_path) ==
    LET lookup_name == Lower(Basename(lut_name_or_path))
        candidates == Candidates(idx, lookup_name)
    IN  IF candidates # <<>>
        THEN [found |-> TRUE, path |-> candidates[1], steps |-> <<"exists", "index">>]
        ELSE FuzzyStep(idx, lookup_name)

\* Lines 119-130 with the index asked before the disk.
ResolveIndexFirst(idx, lut_name_or_path) ==
    LET r == IndexStep(idx, lut_name_or_path)
    IN  IF r.found THEN r
        ELSE IF Exists(lut_name_or_path)
        THEN [found |-> TRUE, path |-> lut_name_or_path, steps |-> <<"exists">>]
        ELSE r

\* target_path of lines 119-130, with the steps that were taken.
Resolve(idx, lut_name_or_path) ==
    IF Exists(lut_name_or_path)
    THEN [found |-> TRUE, path |-> lut_name_or_path, steps |-> <<"exists">>]
    ELSE IndexStep(idx, lut_name_or_path)

(***************************************************************************)
(* The loader and its cache, lines 37-39.                                  *)
(***************************************************************************)

\* maxsize of lru_cache
CacheMaxSize == 32

\* load_cube_file(lut_path) returns rather than raises
LoadCubeFile(lut_path) ==
    Real(lut_path) \in DOMAIN files /\ files[Real(lut_path)] = "good"

\* s without its elements equal to x
Without(s, x) == SelectSeq(s, LAMBDA y : y # x)

\* _get_lut_object without lru_cache: every call reads the file.
GetLutObjectNoCache(c, lut_path) ==
    IF LoadCubeFile(lut_path)
    THEN [ok |-> TRUE, hit |-> FALSE, cache |-> c]
    ELSE [ok |-> FALSE, hit |-> FALSE, cache |-> c]

\* _get_lut_object under a cache that, when full, drops the entry used
\* most recently instead of the one used least recently.
GetLutObjectEvictNewest(c, lut_path) ==
    IF \E i \in 1..Len(c) : c[i] = lut_path
    THEN [ok |-> TRUE, hit |-> TRUE, cache |-> Append(Without(c, lut_path), lut_path)]
    ELSE IF LoadCubeFile(lut_path)
    THEN [ok |-> TRUE, hit |-> FALSE,
          cache |-> Append(IF Len(c) >= CacheMaxSize
                           THEN SubSeq(c, 1, Len(c) - 1) ELSE c, lut_path)]
    ELSE [ok |-> FALSE, hit |-> FALSE, cache |-> c]

\* _get_lut_object under a cache that also keeps a key whose load raised.
GetLutObjectKeepsRaise(c, lut_path) ==
    IF \E i \in 1..Len(c) : c[i] = lut_path
    THEN [ok |-> TRUE, hit |-> TRUE, cache |-> Append(Without(c, lut_path), lut_path)]
    ELSE [ok |-> LoadCubeFile(lut_path), hit |-> FALSE,
          cache |-> Append(IF Len(c) >= CacheMaxSize THEN Tail(c) ELSE c, lut_path)]

\* _get_lut_object under lru_cache: a hit refreshes the entry, a miss calls
\* load_cube_file and stores what it returns (evicting the least recently
\* used entry of a full cache), a raise stores nothing.
GetLutObject(c, lut_path) ==
    IF \E i \in 1..Len(c) : c[i] = lut_path
    THEN [ok |-> TRUE, hit |-> TRUE, cache |-> Append(Without(c, lut_path), lut_path)]
    ELSE IF LoadCubeFile(lut_path)
    THEN [ok |-> TRUE, hit |-> FALSE,
          cache |-> Append(IF Len(c) >= CacheMaxSize THEN Tail(c) ELSE c, lut_path)]
    ELSE [ok |-> FALSE, hit |-> FALSE, cache |-> c]

\* The transform objects.  load_cube_file makes a new object each time it
\* returns: the object is named by its path and by how many objects were
\* made from that path, itself included.  made[p] counts the objects made
\* from p, held[p] is the one the cache holds for the key p, used lists the
\* paths _get_lut_object returned an object for, the latest last.
NoObject == [path |-> <<>>, gen |-> 0]

NoObjects == [made |-> <<>>, held |-> <<>>, used |-> <<>>]

\* How many objects load_cube_file has made from lut_path.
Made(objs, lut_path) ==
    IF lut_path \in DOMAIN objs.made THEN objs.made[lut_path] ELSE 0

\* The object _get_lut_object returns: the one held on a hit, a new one on
\* a miss.
ObjectGot(objs, lut_path, load) ==
    IF load = "hit" THEN [path |-> lut_path, gen |-> objs.held[lut_path]]
    ELSE IF load = "miss"
    THEN [path |-> lut_path, gen |-> Made(objs, lut_path) + 1]
    ELSE NoObject

\* The objects after _get_lut_object(lut_path) left the cache as c: a miss
\* has made an object and stored it, an evicted key holds none.
AfterLoad(objs, c, lut_path, load) ==
    IF load = "hit"
    THEN [objs EXCEPT !.used = Append(Without(@, lut_path), lut_path)]
    ELSE IF load = "miss"
    THEN [made |-> (lut_path :> Made(objs, lut_path) + 1) @@ objs.made,
          held |-> [q \in {c[i] : i \in 1..Len(c)} |->
                      IF q = lut_path THEN Made(objs, lut_path) + 1
                      ELSE objs.held[q]],
          used |-> Append(Without(objs.used, lut_path), lut_path)]
    ELSE objs

\* No re-scan is under way.
NoScan == [active |-> FALSE, todo |-> <<>>]

\* No call runs in a thread of its own.
NoThreads == <<>>

\* No pixel in the curve stage; the tools of the agent not yet set up.
NoPixel == <<>>
NoVersions == <<>>
NoShell == <<>>
NoMemory == <<>>

\* The tools of the agent are idle while the engine is looked at.
ToolsIdle ==
    /\ pixel = NoPixel
    /\ versions = NoVersions
    /\ shell = NoShell
    /\ memory = NoMemory

(***************************************************************************)
(* LUTEngine.apply_lut, lines 91-166.                                      *)
(***************************************************************************)

\* The status strings.  The program's are in Chinese:
\*   line 162  "success"
\*   line 135  "LUT not found, only the basic retouching was done"
\*   line 149  "LUT file corrupt: <the exception>"
\*   line 166  str(e), the text of whatever exception was caught
StatusSuccess == "success"
StatusNotFound == "lut_not_found"
StatusCorrupt == "lut_corrupt"
StatusException == "exception"

\* What a call returns, with what it did on the way: the cache it leaves,
\* what the loader did ("none": not called, "hit", "miss", "raised"), the
\* path resolved (<<>>: none), the steps of the resolution, the intensity
\* after clamp and guard (-1: not reached), the Logger calls made.
Outcome(image, status, c, load, target, steps, alpha, logs) ==
    [image |-> image, status |-> status, cache |-> c, load |-> load,
     target |-> target, steps |-> steps, alpha |-> alpha, logs |-> logs]

\* Lines 164-166: the handler of every exception of the body.
ExceptionReturn(c, load, target, steps, alpha, logs) ==
    Outcome(NullImage, StatusException, c, load, target, steps, alpha,
            Append(logs, "error:engine"))

\* Lines 132-135 returning None as line 149 does.
NotFoundReturnNull(img, c, steps, logs) ==
    Outcome(NullImage, StatusNotFound, c, "none", <<>>, steps, 0 - 1,
            Append(logs, "error:lut_not_found"))

\* Lines 132-135: no LUT resolved.
NotFoundReturn(img, c, steps, logs) ==
    Outcome(Image(img), StatusNotFound, c, "none", <<>>, steps, 0 - 1,
            Append(logs, "error:lut_not_found"))

\* Lines 148-149: loading or filtering raised.
CorruptReturn(img, c, target, steps, alpha, logs) ==
    Outcome(NullImage, StatusCorrupt, c, "raised", target, steps, alpha, logs)

\* Line 138 without its lower bound: min(1.0, x)
ClampUpperOnly(x) == IF x < 100 THEN x ELSE 100

\* Line 138: max(0.0, min(1.0, x))
ClampIntensity(x) ==
    LET m == IF x < 100 THEN x ELSE 100
    IN  IF m > 0 THEN m ELSE 0

\* "log" of line 141
LogMarker == <<"l", "o", "g">>

\* 0.4 of line 141
GovernorThreshold == 40

\* 0.35 of line 143
SafeIntensity == 35

\* The test of line 141 on the resolved path.
IsLogLut(target_path) == Contains(Lower(Basename(target_path)), LogMarker)

\* Lines 141-143 without the test intensity > 0.4.
GovernorAlways(target_path, intensity) ==
    IF IsLogLut(target_path) THEN SafeIntensity ELSE intensity

\* Lines 141-143: the intensity after the log-LUT guard.
Governor(target_path, intensity) ==
    IF IsLogLut(target_path) /\ intensity > GovernorThreshold
    THEN SafeIntensity ELSE intensity

\* Lines 147, 152-155 with the blend ahead of the filter.
BlendBeforeFilter(img, target_path, intensity) ==
    LET filter == Op("Filter", 0, 0, "", target_path)
    IN  IF intensity < 100
        THEN Append(Append(img, Op("Blend", intensity, 0, "", <<>>)), filter)
        ELSE Append(img, filter)

\* Lines 147, 152-155: the filtered image, blended unless intensity is 1.0.
Blend(img, target_path, intensity) ==
    LET filtered == Append(img, Op("Filter", 0, 0, "", target_path))
    IN  IF intensity < 100
        THEN Append(filtered, Op("Blend", intensity, 0, "", <<>>))
        ELSE filtered

\* Lines 137-162: from the clamp to the return, for a resolved target_path.
ApplyResolved(idx, c, a, img, r, logs) ==
    IF ~CanFloat(a.intensity)
    THEN ExceptionReturn(c, "none", r.path, r.steps, 0 - 1, logs)
    ELSE
    LET clamped == ClampIntensity(Float(a.intensity))
        intensity == Governor(r.path, clamped)
        logs2 == IF intensity # clamped THEN Append(logs, "warn:log_lut") ELSE logs
        lut == GetLutObject(c, r.path)
    IN  IF ~lut.ok
        THEN CorruptReturn(img, lut.cache, r.path, r.steps, intensity, logs2)
        ELSE
        LET final == [ok |-> TRUE, img |-> Blend(img, r.path, intensity)]
            sharp == IF NotEqual(a.sharpness, 100)
                     THEN Enhance(final, "Sharpness", a.sharpness) ELSE final
            load == IF lut.hit THEN "hit" ELSE "miss"
        IN  IF ~sharp.ok
            THEN ExceptionReturn(lut.cache, load, r.path, r.steps, intensity, logs2)
            ELSE Outcome(Image(sharp.img), StatusSuccess, lut.cache, load, r.path,
                         r.steps, intensity, logs2)

\* apply_lut(image_path, lut_name_or_path, intensity, brightness, saturation,
\*           temperature, tint, contrast, curve, sharpness)
\* on the index idx and the cache c; a.image_opens says whether
\* PIL.Image.open(image_path) and the conversion to RGB succeed.
ApplyLutResult(idx, c, a) ==
    IF ~a.image_opens THEN ExceptionReturn(c, "none", <<>>, <<>>, 0 - 1, <<>>)
    ELSE
    LET tone == ToneStage(a)
    IN  IF ~tone.ok THEN ExceptionReturn(c, "none", <<>>, <<>>, 0 - 1, <<>>)
        ELSE
        LET img == ApplyCurve(tone.img, a.curve)
            logs == IF a.curve = "Linear" \/ a.curve = "" THEN <<>>
                    ELSE <<"debug:curve">>
            r == Resolve(idx, a.lut_name_or_path)
        IN  IF ~r.found THEN NotFoundReturn(img, c, r.steps, logs)
            ELSE ApplyResolved(idx, c, a, img, r, logs)

(***************************************************************************)
(* What a call of apply_lut does to the index: lut_index is a              *)
(* defaultdict(list), which stores an empty list under a missing key when  *)
(* it is subscripted, and stores nothing when it is asked with get().      *)
(***************************************************************************)

\* self.lut_index[key]: for a missing key __missing__ stores list() under it.
DictItem(idx, key) ==
    IF HasKey(idx, key) THEN idx ELSE Append(idx, [key |-> key, paths |-> <<>>])

\* Line 124 written self.lut_index[lookup_name].
DictGetSubscript(idx, key) == DictItem(idx, key)

\* self.lut_index.get(key), line 124: get() never calls __missing__.
DictGet(idx, key) == idx

\* The index after a call of apply_lut that returned out: line 124 ran when
\* the index step was taken, self.lut_index[matches[0]] of line 130 when
\* the fuzzy step found a key.
IndexAfterApply(idx, a, out) ==
    IF \A i \in 1..Len(out.steps) : out.steps[i] # "index" THEN idx
    ELSE LET lookup_name == Lower(Basename(a.lut_name_or_path))
             got == DictGet(idx, lookup_name)
             fuzzy == \E i \in 1..Len(out.steps) : out.steps[i] = "fuzzy"
         IN  IF fuzzy /\ out.target # <<>>
             THEN DictItem(got, GetCloseMatches(lookup_name,
                                    {got[i].key : i \in 1..Len(got)})[1])
             ELSE got

(***************************************************************************)
(* SmartPlanner.generate_plan, lines 110-148: the checks on the plan the   *)
(* language model answered with, and the caller of main.py that hands the  *)
(* plan to apply_lut.                                                      *)
(***************************************************************************)

\* a key the plan does not hold
Absent == [k |-> "absent", v |-> 0]

\* ['log', 'raw', 'flat'] of line 113
PlannerMarkers ==
    {<<"l", "o", "g">>, <<"r", "a", "w">>, <<"f", "l", "a", "t">>}

\* Lines 122-127: float(plan[key]) for a key the plan holds, the default
\* when float raises.
CoerceKey(x, default) ==
    IF x = Absent THEN Absent
    ELSE IF CanFloat(x) THEN Num(Float(x)) ELSE Num(default)

\* Lines 132-146: the fallback plan.
FallbackPlan(available_luts) ==
    [selected_lut |-> IF available_luts # <<>> THEN available_luts[1] ELSE <<>>,
     simulate_log |-> FALSE, intensity |-> Num(70), brightness |-> Num(100),
     saturation |-> Num(100), temperature |-> Num(0)]

\* Lines 111-148, on the plan extracted from the answer (selected_lut <<>>:
\* no plan, or a plan without a LUT).
GeneratePlan(plan, available_luts) ==
    IF plan.selected_lut # <<>>
    THEN LET lut_name == Lower(plan.selected_lut)
             is_log_lut == \E x \in PlannerMarkers : Contains(lut_name, x)
             forced == is_log_lut /\ ~plan.simulate_log
         IN  [selected_lut |-> plan.selected_lut,
              simulate_log |-> IF forced THEN TRUE ELSE plan.simulate_log,
              intensity |-> CoerceKey(IF forced THEN Num(100) ELSE plan.intensity, 100),
              brightness |-> CoerceKey(plan.brightness, 100),
              saturation |-> CoerceKey(plan.saturation, 100),
              temperature |-> CoerceKey(plan.temperature, 0)]
    ELSE FallbackPlan(available_luts)

\* plan.get(key, default)
Get(x, default) == IF x = Absent THEN Num(default) ELSE x

\* main.py lines 201-208: the arguments of the call of apply_lut.
\* generate_plan has opened the image (lines 93-100), but main() was
\* suspended at line 188 since: image_opens says whether the image is
\* still there to be opened.
PlanArgs(plan, image_opens) ==
    [image_opens |-> image_opens, lut_name_or_path |-> plan.selected_lut,
     intensity |-> Get(plan.intensity, 100),
     brightness |-> Get(plan.brightness, 100),
     saturation |-> Get(plan.saturation, 100),
     temperature |-> Get(plan.temperature, 0),
     tint |-> Num(0), contrast |-> Num(100), curve |-> "Linear",
     sharpness |-> Num(100)]

(***************************************************************************)
(* The inputs of the calls.                                                *)
(***************************************************************************)

\* How far below 0 and above 1.0 the intensities asked for reach, in
\* hundredths.
IntensityUnder == 50
IntensityOver == 70

\* The intensities handed to apply_lut: -0.5, 0, 0.35, 0.4, 0.41, 0.9, 1.0,
\* 1.7, "0.8" and "high".
Intensities ==
    {Num(0 - IntensityUnder), Num(0), Num(35), Num(40), Num(41), Num(90),
     Num(100), Num(100 + IntensityOver), NumStr(80), Text}

\* The call with every grading parameter at its default (line 91-93).
DefaultArgs ==
    [image_opens |-> TRUE, lut_name_or_path |-> IdNone, intensity |-> Num(100),
     brightness |-> Num(100), saturation |-> Num(100), temperature |-> Num(0),
     tint |-> Num(0), contrast |-> Num(100), curve |-> "Linear",
     sharpness |-> Num(100)]

\* The other parameters: the defaults, a full grade, a grade with an
\* unknown curve, a brightness that is not a number, a sharpness that is
\* not a number, an image that does not open.
Shapes ==
    {DefaultArgs,
     [DefaultArgs EXCEPT !.brightness = Num(120), !.temperature = Num(10),
                         !.contrast = Num(110), !.saturation = Num(90),
                         !.curve = "Soft-High", !.sharpness = Num(80)],
     [DefaultArgs EXCEPT !.tint = Num(0 - 20), !.curve = "Bogus"],
     [DefaultArgs EXCEPT !.brightness = Text],
     [DefaultArgs EXCEPT !.sharpness = Text],
     [DefaultArgs EXCEPT !.image_opens = FALSE]}

\* The identifiers and intensities every shape of call is tried with.
ShapeIdents == {IdSlogUpper, IdNone}
ShapeIntensities == {Num(90), Text}

\* The calls of apply_lut: every identifier with every intensity at the
\* defaults, and every shape with a few identifiers and intensities.
CallArgs ==
    {[DefaultArgs EXCEPT !.lut_name_or_path = id, !.intensity = i] :
        id \in Idents, i \in Intensities}
    \cup
    {[sh EXCEPT !.lut_name_or_path = id, !.intensity = i] :
        sh \in Shapes, id \in ShapeIdents, i \in ShapeIntensities}

\* The plans the language model answers with.
AiPlans ==
    [selected_lut : {<<>>, IdSlogUpper, IdRawDir},
     simulate_log : BOOLEAN,
     intensity : {Absent, Num(90), Text},
     brightness : {Absent, Text},
     saturation : {Absent},
     temperature : {Absent}]

\* What the RAG search hands generate_plan (line 32).
AvailableLuts == {<<>>, <<IdSlogUpper>>}

(***************************************************************************)
(* The state machine.                                                      *)
(***************************************************************************)

NoPlan ==
    [selected_lut |-> <<>>, simulate_log |-> FALSE, intensity |-> Absent,
     brightness |-> Absent, saturation |-> Absent, temperature |-> Absent]

NoOutcome == Outcome(NullImage, "", <<>>, "none", <<>>, <<>>, 0 - 1, <<>>)

\* No call is waiting for its caller.
NoCall ==
    [op |-> "none", args |-> DefaultArgs, plan |-> NoPlan, out |-> NoOutcome,
     paths |-> <<>>, object |-> NoObject]

\* LUTEngine.__init__ over any directory: the index of a first scan, an
\* empty cache.
Init ==
    /\ rootExists \in BOOLEAN
    /\ files \in {d \in Disks : (PathTxt \in DOMAIN d <=> rootExists)
                                /\ (~rootExists => DOMAIN d = {})}
    /\ \E order \in WalkOrders(files) :
           lut_index = BuildIndexResult(rootExists, order)
    /\ cache = <<>>
    /\ last = NoCall
    /\ objects = NoObjects
    /\ scan = NoScan
    /\ threads = NoThreads
    /\ ToolsIdle

\* apply_lut called with the arguments a, and what it leaves behind; op
\* tells a first call ("apply_lut") from a call made again ("retry").
CallAs(op, a) ==
    \E out \in {ApplyLutResult(lut_index, cache, a)} :
        /\ cache' = out.cache
        /\ objects' = AfterLoad(objects, out.cache, out.target, out.load)
        /\ last' = [op |-> op, args |-> a, plan |-> NoPlan,
                    out |-> out, paths |-> <<>>,
                    object |-> ObjectGot(objects, out.target, out.load)]
        /\ lut_index' = IndexAfterApply(lut_index, a, out)
        /\ UNCHANGED <<tools, rootExists, files, scan, threads>>

\* A first call of apply_lut with the arguments a.
Call(a) == CallAs("apply_lut", a)

\* lut_engine.apply_lut(...) called directly.
ApplyLut ==
    /\ last.op = "none"
    /\ \E a \in CallArgs : Call(a)

\* await asyncio.to_thread(planner.generate_plan, ...), main.py line 188:
\* main() is suspended until the plan is there, and the files may change
\* before it goes on.
MakePlan ==
    /\ last.op = "none"
    /\ \E p \in AiPlans, available_luts \in AvailableLuts :
          last' = [NoCall EXCEPT !.op = "planned",
                                 !.plan = GeneratePlan(p, available_luts)]
    /\ UNCHANGED <<tools, rootExists, files, lut_index, cache, objects, scan, threads>>

\* main() goes on with the plan (main.py lines 190-208): the call of
\* apply_lut with it; no call when the plan names no LUT.
RunPlan ==
    /\ last.op = "planned"
    /\ \E image_opens \in BOOLEAN :
        LET plan == last.plan
            a == PlanArgs(plan, image_opens)
        IN  \E out \in {IF plan.selected_lut # <<>>
                          THEN ApplyLutResult(lut_index, cache, a)
                          ELSE [NoOutcome EXCEPT !.cache = cache]} :
            /\ cache' = out.cache
            /\ objects' = AfterLoad(objects, out.cache, out.target, out.load)
            /\ last' = [op |-> "plan", args |-> a, plan |-> plan,
                        out |-> out, paths |-> <<>>,
                        object |-> ObjectGot(objects, out.target, out.load)]
            /\ lut_index' = IndexAfterApply(lut_index, a, out)
    /\ UNCHANGED <<tools, rootExists, files, scan, threads>>

\* _build_index(): a re-scan.
BuildIndex ==
    /\ last.op = "none"
    /\ \E order \in WalkOrders(files) :
           lut_index' = BuildIndexResult(rootExists, order)
    /\ last' = [NoCall EXCEPT !.op = "build_index"]
    /\ UNCHANGED <<tools, rootExists, files, cache, objects, scan, threads>>

\* list_luts()
ListLuts ==
    /\ last.op = "none"
    /\ last' = [NoCall EXCEPT !.op = "list_luts", !.paths = ListLutsResult(lut_index)]
    /\ UNCHANGED <<tools, rootExists, files, lut_index, cache, objects, scan, threads>>

\* No call is under way: the program waits for input, or for its plan.
Waiting == last.op \in {"none", "planned"}

\* The caller takes what the call returned (main.py line 201).
Return ==
    /\ ~Waiting
    /\ last' = NoCall
    /\ UNCHANGED <<tools, rootExists, files, lut_index, cache, objects, scan, threads>>

\* Someone writes a LUT file under lut_dir, parsable or not.
WriteFile ==
    /\ Waiting
    /\ rootExists
    /\ \E p \in Paths \ {PathTxt}, c \in {"good", "bad"} :
        /\ c \in Contents(p)
        /\ (IF p \in DOMAIN files THEN files[p] # c ELSE TRUE)
        /\ files' = [q \in DOMAIN files \cup {p} |-> IF q = p THEN c ELSE files[q]]
    /\ UNCHANGED <<tools, rootExists, lut_index, cache, last, objects, scan, threads>>

\* Someone removes a LUT file.
RemoveFile ==
    /\ Waiting
    /\ \E p \in DOMAIN files \ {PathTxt} :
        files' = [q \in DOMAIN files \ {p} |-> files[q]]
    /\ UNCHANGED <<tools, rootExists, lut_index, cache, last, objects, scan, threads>>

\* Someone removes lut_dir with all it holds.
RemoveRoot ==
    /\ Waiting
    /\ rootExists
    /\ rootExists' = FALSE
    /\ files' = [q \in {} |-> "good"]
    /\ UNCHANGED <<tools, lut_index, cache, last, objects, scan, threads>>

\* Someone creates lut_dir, with its a.txt.
MakeRoot ==
    /\ Waiting
    /\ ~rootExists
    /\ rootExists' = TRUE
    /\ files' = [q \in {PathTxt} |-> "bad"]
    /\ UNCHANGED <<tools, lut_index, cache, last, objects, scan, threads>>

Next ==
    \/ ApplyLut
    \/ MakePlan
    \/ RunPlan
    \/ BuildIndex
    \/ ListLuts
    \/ Return
    \/ WriteFile
    \/ RemoveFile
    \/ RemoveRoot
    \/ MakeRoot

Spec == Init /\ [][Next]_vars

(***************************************************************************)
(* The cache at its capacity: a LUT directory with more files than the     *)
(* cache has room for, and calls of apply_lut that name them one after     *)
(* the other.                                                              *)
(***************************************************************************)

\* How many LUT files the directory holds beyond the capacity of the cache.
Spare == 2

\* How many objects are made from one path at most.
MaxMade == 2

FillCount == CacheMaxSize + Spare

Digits == <<"0", "1", "2", "3", "4", "5", "6", "7", "8", "9">>

\* "l/01.cube", "l/02.cube", ...
FillPath(i) ==
    lut_dir \o <<"/", Digits[(i \div 10) + 1], Digits[(i % 10) + 1]>> \o CubeExt

FillPaths == {FillPath(i) : i \in 1..FillCount}

\* l/SLog.cube and the numbered files, all parsable.
CacheDisk == [p \in FillPaths \cup {PathSLog} |-> "good"]

\* os.walk over that directory.
CacheWalk == [i \in 1..(FillCount + 1) |-> IF i = 1 THEN PathSLog ELSE FillPath(i - 1)]

\* What _build_index registers for that directory: no two of its files
\* share a lowercased name, so every file has a key of its own, in the
\* order of the walk.
CacheIndex ==
    [i \in 1..(FillCount + 1) |->
        [key |-> Lower(Basename(CacheWalk[i])), paths |-> <<CacheWalk[i]>>]]

\* LUTEngine.__init__ over that directory.
CacheInit ==
    /\ rootExists = TRUE
    /\ files = CacheDisk
    /\ lut_index = CacheIndex
    /\ cache = <<>>
    /\ last = NoCall
    /\ objects = NoObjects
    /\ scan = NoScan
    /\ threads = NoThreads
    /\ ToolsIdle

\* The numbered files an object was made from.
FillsLoaded == Cardinality(FillPaths \cap DOMAIN objects.made)

\* The identifiers of the calls: l/SLog.cube by its name in another letter
\* case and by another spelling of its path, the first numbered file, and
\* the next numbered file by its path.
CacheIdents ==
    {IdSlogUpper, IdDotPath}
    \cup (IF FillsLoaded < FillCount THEN {FillPath(FillsLoaded + 1)} ELSE {})

\* apply_lut(image_path, id) with every grading parameter at its default.
ApplyLutCached ==
    /\ last.op = "none"
    /\ \E id \in CacheIdents :
           Call([DefaultArgs EXCEPT !.lut_name_or_path = id])
    /\ \A q \in DOMAIN objects'.made : objects'.made[q] <= MaxMade

CacheNext ==
    \/ ApplyLutCached
    \/ Return

CacheSpec == CacheInit /\ [][CacheNext]_vars

(***************************************************************************)
(* A call repeated after a load has failed: the user asks again for the    *)
(* same LUT (the loop of main.py around lines 188-208), after the file     *)
(* was or was not written anew.                                            *)
(***************************************************************************)

\* The calls: every identifier, the default grading parameters.
RetryArgs == {[DefaultArgs EXCEPT !.lut_name_or_path = id] : id \in Idents}

\* A first call.
FirstCall ==
    /\ last.op = "none"
    /\ \E a \in RetryArgs : Call(a)

\* The last call has reported an unreadable LUT file.
LoadRaised == last.op \in {"apply_lut", "retry"} /\ last.out.load = "raised"

\* Someone writes the file anew, parsable, after a call has reported it
\* unreadable.
Repair ==
    /\ LoadRaised
    /\ files[Real(last.out.target)] = "bad"
    /\ files' = [files EXCEPT ![Real(last.out.target)] = "good"]
    /\ UNCHANGED <<tools, rootExists, lut_index, cache, last, objects, scan, threads>>

\* The same call again.
Retry ==
    /\ LoadRaised
    /\ CallAs("retry", last.args)

RetryNext ==
    \/ FirstCall
    \/ Repair
    \/ Retry
    \/ Return

RetrySpec == Init /\ [][RetryNext]_vars

(***************************************************************************)
(* Calls in threads.  The engine is one module-level object (main.py line  *)
(* 39, gui_app.py line 38) and takes no lock: calls of apply_lut from      *)
(* several threads and a re-scan interleave wherever the interpreter       *)
(* switches threads.  A call is cut where it touches what the threads      *)
(* share: the index read at lines 124, 128 and 130, the cache read at     *)
(* line 146, and the return of load_cube_file, which reads the file with   *)
(* the interpreter lock released.  _build_index is cut after clear() and after every       *)
(* append.  The calls carry the default grading parameters.                *)
(***************************************************************************)

\* How many threads call apply_lut.
NumThreads == 2

Threads == 1..NumThreads

\* A thread that is not inside apply_lut.
IdleThread ==
    [pc |-> "idle", id |-> <<>>, key |-> <<>>, path |-> <<>>, status |-> "",
     object |-> NoObject]

\* The identifiers the threads ask for.
ConcIdents == {IdSlogUpper, IdRawDir}

\* One engine over a directory that holds l/a.txt and l/SLog.cube, with or
\* without l/s/Raw.CUBE.
ConcInit ==
    /\ rootExists = TRUE
    /\ files \in {d \in Disks : /\ PathTxt \in DOMAIN d /\ PathSLog \in DOMAIN d
                                /\ PathSlogLower \notin DOMAIN d}
    /\ \E order \in WalkOrders(files) :
           lut_index = BuildIndexResult(rootExists, order)
    /\ cache = <<>>
    /\ last = NoCall
    /\ objects = NoObjects
    /\ scan = NoScan
    /\ threads = [t \in Threads |-> IdleThread]
    /\ ToolsIdle

\* A thread enters apply_lut and runs to line 124: the identifier is a
\* file (line 120), or the index is asked with get() for the lowercased
\* name; a name with no paths goes on to the fuzzy step.
ThreadCall(t) ==
    /\ threads[t].pc = "idle"
    /\ \E id \in ConcIdents :
        LET candidates == Candidates(DictGet(lut_index, Lower(Basename(id))),
                                     Lower(Basename(id)))
        IN  threads' = [threads EXCEPT ![t] =
                IF Exists(id)
                THEN [IdleThread EXCEPT !.pc = "lookup", !.id = id, !.path = id]
                ELSE IF candidates # <<>>
                THEN [IdleThread EXCEPT !.pc = "lookup", !.id = id,
                                        !.path = candidates[1]]
                ELSE [IdleThread EXCEPT !.pc = "keys", !.id = id]]
    /\ UNCHANGED <<tools, rootExists, files, lut_index, cache, last, objects, scan>>

\* Lines 128-129: the keys the index holds now, and the closest of them;
\* with none close enough the call ends at lines 132-135.
ThreadKeys(t) ==
    /\ threads[t].pc = "keys"
    /\ LET lookup_name == Lower(Basename(threads[t].id))
           all_keys == {lut_index[i].key : i \in 1..Len(lut_index)}
           matches == GetCloseMatches(lookup_name, all_keys)
       IN  threads' = [threads EXCEPT ![t] =
               IF matches = <<>>
               THEN [@ EXCEPT !.pc = "done", !.status = StatusNotFound]
               ELSE [@ EXCEPT !.pc = "item", !.key = matches[1]]]
    /\ UNCHANGED <<tools, rootExists, files, lut_index, cache, last, objects, scan>>

\* Line 130: self.lut_index[matches[0]][0] on the index as it is now.  A
\* key that is no longer there is stored with an empty list, whose [0]
\* raises IndexError; line 164 catches it.
ThreadItem(t) ==
    /\ threads[t].pc = "item"
    /\ lut_index' = DictItem(lut_index, threads[t].key)
    /\ LET paths == IndexAt(lut_index', threads[t].key)
       IN  threads' = [threads EXCEPT ![t] =
               IF paths = <<>>
               THEN [@ EXCEPT !.pc = "done", !.status = StatusException]
               ELSE [@ EXCEPT !.pc = "lookup", !.path = paths[1]]]
    /\ UNCHANGED <<tools, rootExists, files, cache, last, objects, scan>>

\* Line 146: the path is looked up in the cache.  A hit returns the object
\* held; a miss goes on to load_cube_file.
ThreadLookup(t) ==
    /\ threads[t].pc = "lookup"
    /\ LET lut_path == threads[t].path
           hit == \E i \in 1..Len(cache) : cache[i] = lut_path
       IN  IF hit
           THEN /\ cache' = GetLutObject(cache, lut_path).cache
                /\ objects' = AfterLoad(objects, cache', lut_path, "hit")
                /\ threads' = [threads EXCEPT ![t] =
                       [@ EXCEPT !.pc = "done", !.status = StatusSuccess,
                                 !.object = ObjectGot(objects, lut_path, "hit")]]
           ELSE /\ threads' = [threads EXCEPT ![t] = [@ EXCEPT !.pc = "loading"]]
                /\ UNCHANGED <<cache, objects>>
    /\ UNCHANGED <<tools, rootExists, files, lut_index, last, scan>>

\* load_cube_file returns to a thread, or raises.  lru_cache stores the
\* new object unless the key was stored while the file was read; either
\* way the thread goes on with the object it has just made.
ThreadLoaded(t) ==
    /\ threads[t].pc = "loading"
    /\ LET lut_path == threads[t].path
            stored == \E i \in 1..Len(cache) : cache[i] = lut_path
            gen == Made(objects, lut_path) + 1
        IN  IF ~LoadCubeFile(lut_path)
            THEN /\ threads' = [threads EXCEPT ![t] =
                        [@ EXCEPT !.pc = "done", !.status = StatusCorrupt]]
                 /\ UNCHANGED <<cache, objects>>
            ELSE /\ gen <= MaxMade
                 /\ threads' = [threads EXCEPT ![t] =
                        [@ EXCEPT !.pc = "done", !.status = StatusSuccess,
                                  !.object = [path |-> lut_path, gen |-> gen]]]
                 /\ IF stored
                    THEN /\ cache' = cache
                         /\ objects' =
                              [objects EXCEPT
                                 !.made = (lut_path :> gen) @@ @,
                                 !.used = Append(Without(@, lut_path), lut_path)]
                    ELSE /\ cache' = GetLutObject(cache, lut_path).cache
                         /\ objects' = AfterLoad(objects, cache', lut_path, "miss")
    /\ UNCHANGED <<tools, rootExists, files, lut_index, last, scan>>

\* apply_lut returns in a thread.
ThreadReturn(t) ==
    /\ threads[t].pc = "done"
    /\ threads' = [threads EXCEPT ![t] = IdleThread]
    /\ UNCHANGED <<tools, rootExists, files, lut_index, cache, last, objects, scan>>

\* _build_index lines 22-25: the index is cleared in place and the walk
\* begins.
ScanBegin ==
    /\ ~scan.active
    /\ lut_index' = EmptyIndex
    /\ \E order \in WalkOrders(files) :
           scan' = [active |-> rootExists /\ order # <<>>,
                    todo |-> IF rootExists THEN order ELSE <<>>]
    /\ UNCHANGED <<tools, rootExists, files, cache, last, objects, threads>>

\* _build_index lines 26-29: the next file of the walk is registered.
ScanStep ==
    /\ scan.active
    /\ lut_index' = Register(lut_index, Head(scan.todo))
    /\ scan' = [active |-> Tail(scan.todo) # <<>>, todo |-> Tail(scan.todo)]
    /\ UNCHANGED <<tools, rootExists, files, cache, last, objects, threads>>

Calling == \E t \in Threads : ThreadCall(t)

Matching == \E t \in Threads : ThreadKeys(t)

Subscripting == \E t \in Threads : ThreadItem(t)

Looking == \E t \in Threads : ThreadLookup(t)

Loading == \E t \in Threads : ThreadLoaded(t)

Returning == \E t \in Threads : ThreadReturn(t)

ConcNext ==
    \/ Calling
    \/ Matching
    \/ Subscripting
    \/ Looking
    \/ Loading
    \/ Returning
    \/ ScanBegin
    \/ ScanStep

ConcSpec == ConcInit /\ [][ConcNext]_vars

(***************************************************************************)
(* _apply_curve on pixels.  The table y holds floats, kept here in tenths  *)
(* (exact for the piecewise linear curves, the tenths below the float for  *)
(* the sigmoid); the table handed to img.point is                          *)
(* y.astype(np.uint8).tolist() * 3, one run of 256 entries per channel.    *)
(***************************************************************************)

\* The channel values of the pixels sent through the curve.
PixelSamples == {0, 127, 128, 129, 255}

\* The curve names the stage is called with.
CurveInputs == {"Linear", "S-Curve", "Soft-High", "Lift-Shadow", "Bogus"}

\* astype(np.uint8) rounding to the nearest integer
AsUint8Rounded(tenths) == ((tenths + 5) \div 10) % 256

\* astype(np.uint8) of a float that is not negative: the fraction is
\* dropped, the integer kept modulo 256.
AsUint8(tenths) == (tenths \div 10) % 256

\* Line 65: np.where(x < 128, x, 128 + (x - 128) * 0.8), in tenths
SoftHigh(x) == IF x < 128 THEN 10 * x ELSE 1280 + (x - 128) * 8

\* Line 70: np.where(x > 64, x, x + (64 - x) * 0.3), in tenths
LiftShadow(x) == IF x > 64 THEN 10 * x ELSE 10 * x + (64 - x) * 3

\* Lines 56-60: y = 255 / (1 + np.exp(-5 * (x / 255 - 0.5))), stretched by
\* y = (y - y.min()) * 255 / (y.max() - y.min()), for x = 0..255: the
\* float64 values of y, in tenths with the rest dropped.
SCurveTenths ==
    <<
       0, 4, 8, 12, 17, 21, 26, 30, 35, 40, 44, 49,
       54, 59, 65, 70, 75, 80, 86, 91, 97, 103, 109, 115,
       121, 127, 133, 139, 146, 152, 159, 165, 172, 179, 186, 193,
       200, 207, 215, 222, 230, 237, 245, 253, 261, 269, 277, 286,
       294, 302, 311, 320, 329, 338, 347, 356, 365, 375, 384, 394,
       403, 413, 423, 433, 443, 454, 464, 475, 485, 496, 507, 518,
       529, 540, 551, 563, 574, 586, 597, 609, 621, 633, 645, 657,
       670, 682, 695, 707, 720, 733, 746, 758, 772, 785, 798, 811,
       825, 838, 852, 865, 879, 893, 906, 920, 934, 948, 962, 976,
       991, 1005, 1019, 1033, 1048, 1062, 1077, 1091, 1106, 1120, 1135, 1150,
       1164, 1179, 1194, 1208, 1223, 1238, 1252, 1267, 1282, 1297, 1311, 1326,
       1341, 1355, 1370, 1385, 1399, 1414, 1429, 1443, 1458, 1472, 1487, 1501,
       1516, 1530, 1544, 1558, 1573, 1587, 1601, 1615, 1629, 1643, 1656, 1670,
       1684, 1697, 1711, 1724, 1738, 1751, 1764, 1777, 1791, 1803, 1816, 1829,
       1842, 1854, 1867, 1879, 1892, 1904, 1916, 1928, 1940, 1952, 1963, 1975,
       1986, 1998, 2009, 2020, 2031, 2042, 2053, 2064, 2074, 2085, 2095, 2106,
       2116, 2126, 2136, 2146, 2155, 2165, 2174, 2184, 2193, 2202, 2211, 2220,
       2229, 2238, 2247, 2255, 2263, 2272, 2280, 2288, 2296, 2304, 2312, 2319,
       2327, 2334, 2342, 2349, 2356, 2363, 2370, 2377, 2384, 2390, 2397, 2403,
       2410, 2416, 2422, 2428, 2434, 2440, 2446, 2452, 2458, 2463, 2469, 2474,
       2479, 2484, 2490, 2495, 2500, 2505, 2509, 2514, 2519, 2523, 2528, 2532,
       2537, 2541, 2545, 2550
    >>

\* Lines 54-60: the sigmoid at x, in tenths
SCurve(x) == SCurveTenths[x + 1]

\* Line 76: table = y.astype(np.uint8).tolist() * 3; the entries are
\* numbered from 0.
CurveTable(curve_type) ==
    [i \in 0..767 |->
        AsUint8(IF curve_type = "S-Curve" THEN SCurve(i % 256)
                ELSE IF curve_type = "Soft-High" THEN SoftHigh(i % 256)
                ELSE LiftShadow(i % 256))]

\* img.point(table) on one RGB pixel: band c reads table[256 * c + value].
Point(rgb, table) ==
    <<table[rgb[1]], table[256 + rgb[2]], table[512 + rgb[3]]>>

\* _apply_curve(img, curve_type) on one pixel of img.
ApplyCurvePixel(rgb, curve_type) ==
    IF curve_type = "Linear" \/ curve_type = "" THEN rgb
    ELSE IF curve_type \in CurveNames
         THEN Point(rgb, CurveTable(curve_type))
         ELSE rgb

\* How many times a graded image is graded again.
MaxGrades == 1

\* A pixel that no curve has been applied to yet; graded counts the calls
\* the image has been through.
FreshPixel(rgb) == [in |-> rgb, curve |-> "none", out |-> rgb, graded |-> 0]

\* LUTEngine() where there is no LUT directory, and no call made.
EngineIdle ==
    /\ rootExists = FALSE
    /\ files = [q \in {} |-> "good"]
    /\ lut_index = EmptyIndex
    /\ cache = <<>>
    /\ last = NoCall
    /\ objects = NoObjects
    /\ scan = NoScan
    /\ threads = NoThreads

\* An image of one pixel.
CurveInit ==
    /\ EngineIdle
    /\ pixel \in {FreshPixel(<<r, g, b>>) : r, g, b \in PixelSamples}
    /\ versions = NoVersions
    /\ shell = NoShell
    /\ memory = NoMemory

\* self._apply_curve(img, curve), line 116.
CurveStage ==
    /\ pixel.curve = "none"
    /\ \E curve_type \in CurveInputs :
          pixel' = [pixel EXCEPT !.curve = curve_type,
                                 !.out = ApplyCurvePixel(pixel.in, curve_type)]
    /\ UNCHANGED <<engine, versions, shell, memory>>

\* The image returned is graded again by a later call.
CurveAgain ==
    /\ pixel.curve # "none"
    /\ pixel.graded < MaxGrades
    /\ pixel' = [FreshPixel(pixel.out) EXCEPT !.graded = pixel.graded + 1]
    /\ UNCHANGED <<engine, versions, shell, memory>>

CurveNext == CurveStage \/ CurveAgain

CurveSpec == CurveInit /\ [][CurveNext]_vars

(***************************************************************************)
(* agent.py, VersionManager: the program's own source file SOURCE_FILE,    *)
(* the backups under BACKUP_DIR, update_code and restore_backup.  A file   *)
(* content is a number: 0 is a file cut short by a write that failed,      *)
(* 1.. are versions of the code.  A backup is named by the second it was   *)
(* made in and by its reason (the version in the name does not change).    *)
(***************************************************************************)

\* How many versions of the code there are, and the last second of the clock.
NumCodes == 2
MaxClock == 1

\* How many backup files BACKUP_DIR comes to hold.
MaxBackups == 2

\* "before_restore" of line 155
BeforeRestore ==
    <<"b", "e", "f", "o", "r", "e", "_", "r", "e", "s", "t", "o", "r", "e">>

\* The reasons update_code is given: "ai_update" (the default), a request
\* of the user that holds a "/", and "before_restore".
ReasonAiUpdate == <<"a", "i", "_", "u", "p", "d", "a", "t", "e">>
ReasonSlash == <<"j", "p", "g", "/", "p", "n", "g">>
Reasons == {ReasonAiUpdate, ReasonSlash, BeforeRestore}

\* "manual" of line 861, the reason of a backup asked for without message
ReasonManual == <<"m", "a", "n", "u", "a", "l">>

\* Lines 130-132: the backup's name, from the clock and the reason.
BackupName(now, reason) == [ts |-> now, reason |-> reason]

\* The names restore_backup is asked for.
BackupNames ==
    {BackupName(t, r) : t \in 0..MaxClock, r \in Reasons \cup {ReasonManual}}

\* What the file system does to the writing of one file: the file is
\* written, it cannot be made, or it is made and the write fails (a full
\* disk) and leaves it cut short.
WriteOutcomes == {"ok", "open_fails", "write_fails"}

\* What the file system does to the steps of one operation: to the copy of
\* the backup, to the writing of SOURCE_FILE, and whether version.json is
\* saved.
Envs == [copy : WriteOutcomes, write : WriteOutcomes, save_ok : BOOLEAN]

\* VersionManager() with the source at its first version and no backup.
FirstVersions ==
    [source |-> 1, backups |-> <<>>, now |-> 0, op |-> "none", before |-> 1,
     writes |-> <<>>, result |-> "none"]

\* An operation begins: it has written nothing yet.
Begin(v, op) ==
    [v EXCEPT !.op = op, !.before = v.source, !.writes = <<>>, !.result = "none"]

\* A file written: which ("backup" with its name, "source"), with what, and
\* whether the write went through (done) or left the file cut short.
Written(file, name, content, done) ==
    [file |-> file, name |-> name, content |-> content, done |-> done]

\* open(SOURCE_FILE, 'w') and f.write(new_code), or shutil.copy2 onto
\* SOURCE_FILE: nothing when the file does not open, a file cut short when
\* the write fails.
WriteSource(v, content, write) ==
    IF write = "open_fails" THEN v
    ELSE LET c == IF write = "write_fails" THEN 0 ELSE content
         IN  [v EXCEPT !.source = c,
                       !.writes = Append(@, Written("source", <<>>, c, write = "ok"))]

\* create_backup, lines 128-136: shutil.copy2(SOURCE_FILE, backup_path)
\* raises with no file made when the name holds a "/" (the directory is
\* not there) or the file cannot be made; when the write fails it raises
\* and leaves a file cut short under the backup's name, in the place of a
\* backup that had this name.
CreateBackup(v, reason, copy) ==
    LET name == BackupName(v.now, reason)
    IN  IF Contains(reason, <<"/">>) \/ copy = "open_fails"
        THEN [ok |-> FALSE, v |-> v]
        ELSE LET c == IF copy = "write_fails" THEN 0 ELSE v.source
             IN  [ok |-> copy = "ok",
                  v |-> [v EXCEPT !.backups = (name :> c) @@ @,
                                  !.writes = Append(@, Written("backup", name, c, copy = "ok"))]]

\* update_code writing the new code before it makes the backup.
UpdateCodeWriteFirst(v0, new_code, reason, env) ==
    LET w == WriteSource(Begin(v0, "update_code"), new_code, env.write)
        b == CreateBackup(w, reason, env.copy)
    IN  [b.v EXCEPT !.result = IF b.ok /\ env.write = "ok" THEN "True" ELSE "False"]

\* update_code(new_code, reason), lines 170-195.
UpdateCode(v0, new_code, reason, env) ==
    LET b == CreateBackup(Begin(v0, "update_code"), reason, env.copy)
    IN  IF ~b.ok THEN [b.v EXCEPT !.result = "False"]
        ELSE LET w == WriteSource(b.v, new_code, env.write)
             IN  [w EXCEPT !.result =
                     IF env.write = "ok" /\ env.save_ok THEN "True" ELSE "False"]

\* restore_backup(backup_name), lines 147-163.
RestoreBackup(v0, backup_name, env) ==
    LET v == Begin(v0, "restore_backup")
    IN  IF backup_name \notin DOMAIN v.backups
        THEN [v EXCEPT !.result = "False"]
        ELSE LET b == CreateBackup(v, BeforeRestore, env.copy)
             IN  IF ~b.ok THEN [b.v EXCEPT !.result = "False"]
                 ELSE LET w == WriteSource(b.v, b.v.backups[backup_name], env.write)
                      IN  [w EXCEPT !.result =
                              IF env.write = "ok" THEN "True" ELSE "False"]

\* BACKUP_DIR holds no more files than the model follows.
FewBackups(v) == Cardinality(DOMAIN v.backups) <= MaxBackups

\* The agent with its source file, before any update.
VersionInit ==
    /\ EngineIdle
    /\ pixel = NoPixel
    /\ versions = FirstVersions
    /\ shell = NoShell
    /\ memory = NoMemory

\* version_manager.update_code(new_code, reason=modification_request)
Update ==
    /\ versions.op = "none"
    /\ \E new_code \in 1..NumCodes, reason \in Reasons, env \in Envs :
          /\ versions' = UpdateCode(versions, new_code, reason, env)
          /\ FewBackups(versions')
    /\ UNCHANGED <<engine, pixel, shell, memory>>

\* version_control("backup", message), lines 860-862:
\* version_manager.create_backup(reason=message or "manual"), whose
\* exception is the tool's: the result is the path, or what was raised.
Backup ==
    /\ versions.op = "none"
    /\ \E reason \in {ReasonManual, ReasonAiUpdate}, copy \in WriteOutcomes :
          LET b == CreateBackup(Begin(versions, "create_backup"), reason, copy)
          IN  /\ versions' = [b.v EXCEPT !.result = IF b.ok THEN "path" ELSE "raised"]
              /\ FewBackups(versions')
    /\ UNCHANGED <<engine, pixel, shell, memory>>

\* version_manager.restore_backup(backup_name)
Restore ==
    /\ versions.op = "none"
    /\ \E backup_name \in BackupNames, env \in Envs :
          /\ versions' = RestoreBackup(versions, backup_name, env)
          /\ FewBackups(versions')
    /\ UNCHANGED <<engine, pixel, shell, memory>>

\* The caller takes the (success, message) pair.
VersionReturn ==
    /\ versions.op # "none"
    /\ versions' = [versions EXCEPT !.op = "none", !.before = versions.source,
                                    !.writes = <<>>, !.result = "none"]
    /\ UNCHANGED <<engine, pixel, shell, memory>>

\* A second passes.
Tick ==
    /\ versions.op = "none"
    /\ versions.now < MaxClock
    /\ versions' = [versions EXCEPT !.now = @ + 1]
    /\ UNCHANGED <<engine, pixel, shell, memory>>

VersionNext ==
    \/ Update
    \/ Backup
    \/ Restore
    \/ VersionReturn
    \/ Tick

VersionSpec == VersionInit /\ [][VersionNext]_vars

(***************************************************************************)
(* core/security.py: execute_safe_command.                                 *)
(***************************************************************************)

\* How many commands are started before the history is looked at.
MaxRuns == 2

\* ALLOWED_COMMANDS, lines 6-13
AllowedCommands ==
    {<<"g", "i", "t">>,
     <<"d", "i", "r">>,
     <<"l", "s">>,
     <<"e", "c", "h", "o">>,
     <<"t", "y", "p", "e">>,
     <<"c", "a", "t">>,
     <<"w", "h", "o", "a", "m", "i">>,
     <<"v", "e", "r">>,
     <<"c", "d">>,
     <<"m", "k", "d", "i", "r">>}

\* BANNED_KEYWORDS, line 16
BannedKeywords == {}

\* The commands the agent is asked to run: "ls", "LS -l", " ls ", "lsblk", "rm -r x", "git log",
\* "gitk", "echo a", "cat a", "catdoc a", "whoami", "", "rmdir x".
Commands ==
    {<<"l", "s">>,
     <<"L", "S", " ", "-", "l">>,
     <<" ", "l", "s", " ">>,
     <<"l", "s", "b", "l", "k">>,
     <<"r", "m", " ", "-", "r", " ", "x">>,
     <<"g", "i", "t", " ", "l", "o", "g">>,
     <<"g", "i", "t", "k">>,
     <<"e", "c", "h", "o", " ", "a">>,
     <<"c", "a", "t", " ", "a">>,
     <<"c", "a", "t", "d", "o", "c", " ", "a">>,
     <<"w", "h", "o", "a", "m", "i">>,
     <<>>,
     <<"r", "m", "d", "i", "r", " ", "x">>}

\* str.strip(): without the blanks at both ends.
RECURSIVE Strip(_)
Strip(s) ==
    IF s # <<>> /\ Head(s) = " " THEN Strip(Tail(s))
    ELSE IF s # <<>> /\ s[Len(s)] = " " THEN Strip(SubSeq(s, 1, Len(s) - 1))
    ELSE s

\* str.startswith
StartsWith(s, prefix) ==
    Len(prefix) <= Len(s) /\ SubSeq(s, 1, Len(prefix)) = prefix

\* Line 25: any(cmd_lower.startswith(allowed) for allowed in ALLOWED_COMMANDS)
IsAllowed(cmd_lower) == \E allowed \in AllowedCommands : StartsWith(cmd_lower, allowed)

\* What subprocess.run does with a command it was given: it ends with
\* return code 0, with another code, it is killed after 30 seconds, or it
\* cannot be started.
RunOutcomes == {"returned_0", "returned_other", "timeout", "raised"}

\* execute_safe_command(command), lines 18-53: whether subprocess.run was
\* called, and the reply.
ExecuteSafeCommand(command, outcome) ==
    LET cmd_lower == Strip(Lower(command))
    IN  IF ~IsAllowed(cmd_lower)
        THEN [ran |-> FALSE, reply |-> "intercepted"]
        ELSE IF BannedKeywords # {}
                /\ \E banned \in BannedKeywords : Contains(cmd_lower, banned)
        THEN [ran |-> FALSE, reply |-> "intercepted_keyword"]
        ELSE [ran |-> TRUE,
              reply |-> IF outcome = "returned_0" THEN "success"
                        ELSE IF outcome = "returned_other" THEN "failure"
                        ELSE IF outcome = "timeout" THEN "timeout"
                        ELSE "system_error"]

\* No command asked for, none started.
FirstShell == [op |-> "none", command |-> <<>>, ran |-> FALSE, reply |-> "", started |-> <<>>]

ShellInit ==
    /\ EngineIdle
    /\ pixel = NoPixel
    /\ versions = NoVersions
    /\ shell = FirstShell
    /\ memory = NoMemory

\* The agent calls execute_safe_command(command).
Execute ==
    /\ shell.op = "none"
    /\ Len(shell.started) < MaxRuns
    /\ \E command \in Commands, outcome \in RunOutcomes :
          LET r == ExecuteSafeCommand(command, outcome)
          IN  shell' = [op |-> "execute", command |-> command, ran |-> r.ran,
                        reply |-> r.reply,
                        started |-> IF r.ran THEN Append(shell.started, command)
                                    ELSE shell.started]
    /\ UNCHANGED <<engine, pixel, versions, memory>>

\* The agent takes the reply.
ShellReturn ==
    /\ shell.op = "execute"
    /\ shell' = [FirstShell EXCEPT !.started = shell.started]
    /\ UNCHANGED <<engine, pixel, versions, memory>>

ShellNext == Execute \/ ShellReturn

ShellSpec == ShellInit /\ [][ShellNext]_vars

(***************************************************************************)
(* core/memory_manager.py: MemoryManager.  data["user_preferences"] is a   *)
(* sequence of texts; the memory file is absent, holds such a sequence, or *)
(* holds what json.load cannot parse.                                      *)
(***************************************************************************)

\* What the memory file can be.
AbsentFile == [kind |-> "absent", prefs |-> <<>>]
GarbageFile == [kind |-> "garbage", prefs |-> <<>>]
ListFile(s) == [kind |-> "list", prefs |-> s]

\* The texts the agent is asked to remember.
Preferences == {"warm tones", "cool tones", "film grain"}

\* The elements of a sequence.
Elements(s) == {s[i] : i \in 1..Len(s)}

\* No element of the sequence is there twice.
NoDuplicates(s) == \A i, j \in 1..Len(s) : s[i] = s[j] => i = j

\* The preference lists a memory file can hold to begin with.
PreferenceLists ==
    {s \in UNION {[1..n -> Preferences] : n \in 0..Cardinality(Preferences)} :
        NoDuplicates(s)}

\* _load_memory, lines 11-20: the list of the file, the empty list when
\* the file is absent or does not parse.
LoadMemory(file) ==
    IF file.kind = "list" THEN file.prefs ELSE <<>>

\* save_memory, lines 22-25: what the file holds after it, and whether it
\* returned.  The file stays when it does not open, is cut short when the
\* write fails.
SaveMemory(file, data, save) ==
    IF save = "ok" THEN [ok |-> TRUE, file |-> ListFile(data)]
    ELSE IF save = "open_fails" THEN [ok |-> FALSE, file |-> file]
    ELSE [ok |-> FALSE, file |-> GarbageFile]

\* What a call of add_preference found before it acted.
Found(m) == [data |-> m.data, file |-> m.file]

\* add_preference appending without asking whether the text is there.
AddPreferenceAlways(m, text, save) ==
    LET data == Append(m.data, text)
        s == SaveMemory(m.file, data, save)
    IN  [data |-> data, file |-> s.file, op |-> "add_preference", text |-> text,
         reply |-> IF s.ok THEN "written" ELSE "raised", before |-> Found(m)]

\* add_preference(text), lines 27-34.
AddPreference(m, text, save) ==
    IF text \notin Elements(m.data)
    THEN LET data == Append(m.data, text)
             s == SaveMemory(m.file, data, save)
         IN  [data |-> data, file |-> s.file, op |-> "add_preference",
              text |-> text, reply |-> IF s.ok THEN "written" ELSE "raised",
              before |-> Found(m)]
    ELSE [m EXCEPT !.op = "add_preference", !.text = text, !.reply = "exists",
                   !.before = Found(m)]

\* MemoryManager() over the memory file, lines 7-9.
NewMemory(file) ==
    [data |-> LoadMemory(file), file |-> file, op |-> "none", text |-> "",
     reply |-> "", before |-> [data |-> LoadMemory(file), file |-> file]]

MemoryInit ==
    /\ EngineIdle
    /\ pixel = NoPixel
    /\ versions = NoVersions
    /\ shell = NoShell
    /\ memory \in {NewMemory(file) :
                       file \in {AbsentFile, GarbageFile}
                                 \cup {ListFile(s) : s \in PreferenceLists}}

\* memory_mgr.add_preference(info), main.py line 58.
Add ==
    /\ memory.op = "none"
    /\ \E text \in Preferences, save \in {"ok", "open_fails", "write_fails"} :
          memory' = AddPreference(memory, text, save)
    /\ UNCHANGED <<engine, pixel, versions, shell>>

\* The caller takes the reply, or the exception of save_memory.
MemoryReturn ==
    /\ memory.op # "none"
    /\ memory' = [memory EXCEPT !.op = "none", !.text = "", !.reply = "",
                                !.before = Found(memory)]
    /\ UNCHANGED <<engine, pixel, versions, shell>>

\* The program is started again: MemoryManager() reads the file.
Restart ==
    /\ memory.op = "none"
    /\ memory' = NewMemory(memory.file)
    /\ UNCHANGED <<engine, pixel, versions, shell>>

MemoryNext ==
    \/ Add
    \/ MemoryReturn
    \/ Restart

MemorySpec == MemoryInit /\ [][MemoryNext]_vars

(***************************************************************************)
(* Properties of apply_lut.  `last` is the call that has just returned;    *)
(* the disk and the index are as that call found them.                     *)
(***************************************************************************)

\* A direct call of apply_lut has just returned.
Applied == last.op = "apply_lut"

\* The image the tone and curve stages of the last call hand on.
ToneCurveImage == ApplyCurve(ToneStage(last.args).img, last.args.curve)

\* The last call got as far as resolving its LUT identifier.
ReachedResolution == last.args.image_opens /\ ToneStage(last.args).ok

\* None of the three steps resolves the identifier of the last call.
NothingResolves ==
    LET id == last.args.lut_name_or_path
        lookup_name == Lower(Basename(id))
    IN  /\ ~Exists(id)
        /\ ~HasKey(lut_index, lookup_name)
        /\ GetCloseMatches(lookup_name, {lut_index[i].key : i \in 1..Len(lut_index)}) = <<>>

\* The image holds the output of a LUT filter.
Filtered(image) == \E i \in 1..Len(image.ops) : image.ops[i].op = "Filter"

\* C1: when the source image opens and none of the three steps resolves
\* the LUT identifier, apply_lut returns the image of the tone and curve
\* stages, not None, with the not-found status, whatever intensity and
\* sharpness are; the loader is not called and no LUT is applied.
C1_NotFoundKeepsToneImage ==
    (Applied /\ ReachedResolution /\ NothingResolves)
        => /\ ~last.out.image.null
           /\ last.out.image.ops = ToneCurveImage
           /\ last.out.status = StatusNotFound
           /\ last.out.load = "none"
           /\ ~Filtered(last.out.image)
           /\ last.out.cache = cache

\* A not-found call with a full grade, an intensity and a sharpness that
\* are not numbers, against an index that holds keys.
C1_Witness ==
    /\ Applied /\ ReachedResolution /\ NothingResolves
    /\ lut_index # <<>>
    /\ last.args.intensity = Text
    /\ last.args.sharpness = Text
    /\ last.out.status = StatusNotFound

\* A second not-found call: graded, so that the image returned is not the
\* bare source image.
C1_WitnessGraded ==
    /\ Applied /\ NothingResolves
    /\ last.args.curve = "Soft-High"
    /\ Len(last.out.image.ops) = 5

\* C2: when the resolved LUT file fails to load, apply_lut reports the
\* corruption, applies no transform and still returns the image of the
\* tone and curve stages, not None.
C2_CorruptKeepsToneImage ==
    (Applied /\ last.out.status = StatusCorrupt)
        => /\ ~last.out.image.null
           /\ last.out.image.ops = ToneCurveImage

\* C3: every call of apply_lut returns an (image, status) pair, and the
\* image is None only when the source image could not be opened.
C3_NullOnlyOnIOFailure ==
    Applied
        => /\ last.out.status \in
                {StatusSuccess, StatusNotFound, StatusCorrupt, StatusException}
           /\ (last.out.image.null => ~last.args.image_opens)

\* The numeric parameters of the last call.
NumericArgs ==
    {last.args.intensity, last.args.brightness, last.args.saturation,
     last.args.temperature, last.args.tint, last.args.contrast,
     last.args.sharpness}

\* C4: a call of apply_lut with a grading parameter that is not a number
\* (and an image that opens) still returns an image, the parameter coerced.
C4_BadParameterCoerced ==
    (Applied /\ last.args.image_opens /\ \E x \in NumericArgs : ~CanFloat(x))
        => ~last.out.image.null

\* The pair a call returns.
Returned(out) == <<out.image, out.status>>

\* C5: the intensity handed to the blend lies in [0, 1]; with the other
\* arguments, the index, the disk and the cache equal, an intensity below
\* 0 returns what intensity 0 returns and an intensity above 1 what
\* intensity 1 returns.
C5_IntensityClamped ==
    /\ (Applied /\ last.out.alpha # 0 - 1) => last.out.alpha \in 0..100
    /\ \A i \in 1..Len(last.out.image.ops) :
           last.out.image.ops[i].op = "Blend" => last.out.image.ops[i].a \in 0..99
    /\ last.op = "none" =>
         \A a \in CallArgs :
            CanFloat(a.intensity) =>
              /\ Float(a.intensity) < 0 =>
                   Returned(ApplyLutResult(lut_index, cache, a))
                     = Returned(ApplyLutResult(lut_index, cache,
                                               [a EXCEPT !.intensity = Num(0)]))
              /\ Float(a.intensity) > 100 =>
                   Returned(ApplyLutResult(lut_index, cache, a))
                     = Returned(ApplyLutResult(lut_index, cache,
                                               [a EXCEPT !.intensity = Num(100)]))

\* A call with intensity -0.5 that applied a LUT: the blend got 0.
C5_Witness ==
    /\ Applied
    /\ last.args.intensity = Num(0 - IntensityUnder)
    /\ last.out.status = StatusSuccess
    /\ last.out.alpha = 0
    /\ Filtered(last.out.image)

\* A call with intensity 1.7 that applied a LUT without the guard acting.
C5_WitnessAbove ==
    /\ Applied
    /\ last.args.intensity = Num(100 + IntensityOver)
    /\ last.out.status = StatusSuccess
    /\ last.out.alpha = 100

\* The resolved file's name carries the marker of line 141.
TargetIsLog == last.out.target # <<>> /\ IsLogLut(last.out.target)

\* C6: whenever the resolved LUT's filename contains "log" (any letter
\* case), and no log simulation is declared, the intensity used for the
\* blend is at most 0.35, whatever intensity the caller asked for.
C6_LogCeiling ==
    (Applied /\ TargetIsLog /\ Filtered(last.out.image))
        => last.out.alpha <= SafeIntensity

\* The guard lowered the intensity of the last call.
Governed ==
    /\ last.out.alpha # 0 - 1
    /\ last.out.alpha < ClampIntensity(Float(last.args.intensity))

\* C7: whenever the guard lowers the intensity, the status returned is not
\* the plain success status: it carries a warning.
C7_GovernedStatusWarns ==
    (Applied /\ Governed) => last.out.status # StatusSuccess

\* The resolved file's name carries a raw or flat marker and not "log".
TargetIsRawOnly ==
    /\ last.out.target # <<>>
    /\ ~IsLogLut(last.out.target)
    /\ \E m \in PlannerMarkers : Contains(Lower(Basename(last.out.target)), m)

\* C8: a LUT whose filename carries a raw or flat marker but not "log",
\* applied without log simulation, is blended at no more than the ceiling.
C8_RawCeiling ==
    (Applied /\ TargetIsRawOnly /\ Filtered(last.out.image))
        => last.out.alpha <= SafeIntensity

\* C9: when the plan declares log simulation, the log-marked LUT is
\* blended at the plan's intensity clamped to [0, 1], not at the ceiling.
C9_SimulatedLogNotClamped ==
    (last.op = "plan" /\ last.plan.simulate_log /\ TargetIsLog
       /\ Filtered(last.out.image))
        => last.out.alpha = ClampIntensity(Float(last.args.intensity))

\* C10: resolution is the sequence (1) an identifier that is an existing
\* path is the target and the index is not consulted, (2) otherwise the
\* lowercased basename is looked up in the index, (3) only when that
\* misses is the fuzzy match tried; the result is one path or not-found.
C10_ThreeStepResolution ==
    (Applied /\ ReachedResolution) =>
        LET id == last.args.lut_name_or_path
            lookup_name == Lower(Basename(id))
            keys == {lut_index[i].key : i \in 1..Len(lut_index)}
            matches == GetCloseMatches(lookup_name, keys)
            out == last.out
        IN  /\ Exists(id) =>
                /\ out.steps = <<"exists">>
                /\ out.target = id
            /\ (~Exists(id) /\ HasKey(lut_index, lookup_name)) =>
                /\ out.steps = <<"exists", "index">>
                /\ out.target = IndexAt(lut_index, lookup_name)[1]
            /\ (~Exists(id) /\ ~HasKey(lut_index, lookup_name)) =>
                /\ out.steps = <<"exists", "index", "fuzzy">>
                /\ out.target = IF matches = <<>> THEN <<>>
                                ELSE IndexAt(lut_index, matches[1])[1]
            /\ (out.target = <<>>) <=> (out.status = StatusNotFound)

\* An identifier that is an existing path, used although the index would
\* give another path for its name.
C10_Witness ==
    /\ Applied /\ ReachedResolution
    /\ last.args.lut_name_or_path = PathSLog
    /\ Exists(PathSLog)
    /\ HasKey(lut_index, Lower(Basename(PathSLog)))
    /\ IndexAt(lut_index, Lower(Basename(PathSLog)))[1] = PathSlogLower
    /\ last.out.target = PathSLog
    /\ last.out.steps = <<"exists">>

\* The keys of the index, as a set.
KeySet == {lut_index[i].key : i \in 1..Len(lut_index)}

\* C11: an identifier that is not an existing path and whose lowercased
\* basename is a key of the index resolves to the first path registered
\* under that key, whatever its letter case and directory part and however
\* many paths the key holds; the fuzzy step is not taken.
C11_FirstRegisteredWins ==
    \A id \in Idents :
        LET key == Lower(Basename(id))
        IN  (~Exists(id) /\ HasKey(lut_index, key)) =>
                LET r == Resolve(lut_index, id)
                IN  /\ r.found
                    /\ r.path = IndexAt(lut_index, key)[1]
                    /\ \A j \in 2..Len(IndexAt(lut_index, key)) :
                           r.path # IndexAt(lut_index, key)[j]
                    /\ (Applied /\ ReachedResolution
                          /\ last.args.lut_name_or_path = id)
                         => /\ last.out.target = r.path
                            /\ last.out.status # StatusNotFound

\* "SLOG.cube" asked for while l/SLog.cube and l/slog.cube share the key
\* slog.cube and SLOG.cube is no file: the path registered first is used.
C11_Witness ==
    /\ Applied /\ ReachedResolution
    /\ last.args.lut_name_or_path = IdSlogUpper
    /\ ~Exists(IdSlogUpper)
    /\ HasKey(lut_index, Lower(IdSlogUpper))
    /\ Len(IndexAt(lut_index, Lower(IdSlogUpper))) = 2
    /\ last.out.target = IndexAt(lut_index, Lower(IdSlogUpper))[1]
    /\ last.out.target = PathSlogLower

\* 2 * matches / (len(key) + len(word)) >= 0.6
Similar(key, word) == 200 * Matches(key, word) >= Cutoff * (Len(key) + Len(word))

\* No key of the index is more similar to word than key is.
MostSimilar(key, word) ==
    \A y \in KeySet :
        Matches(key, word) * (Len(y) + Len(word))
            >= Matches(y, word) * (Len(key) + Len(word))

\* C12: when the identifier is no existing path and its lowercased basename
\* is no key, resolution succeeds exactly when some key of the index has
\* similarity at least 0.6 to that name, and then gives the first path of
\* a key of maximal similarity; otherwise (an empty index included) the
\* call ends not-found.
C12_FuzzyFallback ==
    (Applied /\ ReachedResolution) =>
        LET id == last.args.lut_name_or_path
            word == Lower(Basename(id))
            out == last.out
        IN  (~Exists(id) /\ ~HasKey(lut_index, word)) =>
              /\ (out.status # StatusNotFound) <=> (\E k \in KeySet : Similar(k, word))
              /\ (out.status # StatusNotFound) =>
                    \E k \in KeySet :
                        /\ Similar(k, word)
                        /\ MostSimilar(k, word)
                        /\ out.target = IndexAt(lut_index, k)[1]
              /\ (out.status = StatusNotFound) => out.target = <<>>

\* "row.cube" asked for with the keys slog.cube (similarity 0.71) and
\* raw.cube (0.88) in the index: the raw LUT is used.
C12_Witness ==
    /\ Applied /\ ReachedResolution
    /\ last.args.lut_name_or_path = IdRow
    /\ KeySet = {Lower(Basename(PathSLog)), Lower(Basename(PathRaw))}
    /\ Similar(Lower(Basename(PathSLog)), IdRow)
    /\ ~MostSimilar(Lower(Basename(PathSLog)), IdRow)
    /\ last.out.target = PathRaw
    /\ last.out.steps = <<"exists", "index", "fuzzy">>

\* "zz" asked for with keys in the index: no key is similar, not found.
C12_WitnessMiss ==
    /\ Applied /\ ReachedResolution
    /\ last.args.lut_name_or_path = IdNone
    /\ KeySet # {}
    /\ last.out.status = StatusNotFound

\* The paths the cache holds an object for.
Cached == {cache[i] : i \in 1..Len(cache)}

\* C13: resolving an indexed LUT file by its name in another letter case
\* and by a full path to the same file gives the identical cached object:
\* the cache holds one entry for the file, whatever the spelling of the
\* path, and a call gets the object the cache holds for that file.
C13_OneObjectPerFile ==
    /\ \A p1, p2 \in Cached : Real(p1) = Real(p2) => p1 = p2
    /\ (Applied /\ last.object # NoObject) =>
          \A q \in Cached :
              Real(q) = Real(last.object.path) =>
                  last.object = [path |-> q, gen |-> objects.held[q]]

\* C14: a path that was loaded once is never read again: whatever was
\* loaded in between, every later call gets the object made first.
C14_LoadedOnce ==
    /\ \A p1 \in DOMAIN objects.made : objects.made[p1] <= 1
    /\ (last.op # "none" /\ last.object # NoObject) => last.object.gen = 1

\* The n elements at the end of s, all of s when it is shorter.
LastOf(s, n) ==
    {s[i] : i \in (IF Len(s) > n THEN Len(s) - n + 1 ELSE 1)..Len(s)}

\* C14, within the capacity of the cache: a call whose path is among the
\* 32 paths used most recently does not read the file again and gets the
\* object made last from that path, which no load has replaced since.
C14_LoadedStaysWhileRecent ==
    (last.op = "none") =>
        \A id \in CacheIdents :
            LET out == ApplyLutResult(lut_index, cache,
                                      [DefaultArgs EXCEPT !.lut_name_or_path = id])
            IN  out.target \in LastOf(objects.used, CacheMaxSize) =>
                    /\ out.load = "hit"
                    /\ ObjectGot(objects, out.target, out.load)
                         = [path |-> out.target, gen |-> objects.made[out.target]]
                    /\ AfterLoad(objects, out.cache, out.target, out.load).made
                         = objects.made

\* l/SLog.cube hit again with the cache full, 31 other paths having been
\* loaded since it was: the call gets the object made first.
C14_Witness ==
    /\ Applied
    /\ last.out.load = "hit"
    /\ last.object = [path |-> PathSLog, gen |-> 1]
    /\ Len(cache) = CacheMaxSize
    /\ Len(objects.used) = CacheMaxSize
    /\ objects.made[PathSLog] = 1

\* C15: the cache holds at most 32 entries, one for a path, and they are
\* the paths used most recently: a load beyond the capacity evicts the
\* entry used least recently, a hit counting as a use.
C15_CacheBoundedLru ==
    /\ Len(cache) <= CacheMaxSize
    /\ \A i, j \in 1..Len(cache) : cache[i] = cache[j] => i = j
    /\ DOMAIN objects.held = Cached
    /\ Cached = LastOf(objects.used, CacheMaxSize)

\* A full cache after more than 32 paths were used: l/SLog.cube, loaded
\* before every numbered file and hit again later, is still held while
\* numbered files loaded after it were evicted.
C15_Witness ==
    /\ Len(cache) = CacheMaxSize
    /\ Len(objects.used) > CacheMaxSize
    /\ PathSLog \in Cached
    /\ objects.made[PathSLog] = 1
    /\ objects.made[FillPath(1)] = 1
    /\ FillPath(1) \notin Cached
    /\ FillPath(2) \notin Cached
    /\ last.op = "apply_lut" /\ last.out.load = "miss"

\* The keys a complete scan of the disk registers.
DiskKeys ==
    {Lower(Basename(f)) : f \in {g \in DOMAIN files :
                                    EndsWith(Lower(Basename(g)), CubeExt)}}

\* C18: a call that runs while a re-scan is under way sees the whole old
\* index or the whole new one: with the disk unchanged, a name that a
\* complete scan registers never ends not-found.
C18_RescanAtomic ==
    \A t \in DOMAIN threads :
        (threads[t].pc = "done"
           /\ Lower(Basename(threads[t].id)) \in DiskKeys)
        => threads[t].status # StatusNotFound

\* C19: every call that has loaded a path holds the object the cache holds
\* for that path, also when several calls missed on it at the same time;
\* the cache never holds more than its capacity.
C19_OneObjectUnderThreads ==
    /\ Len(cache) <= CacheMaxSize
    /\ \A t \in DOMAIN threads :
          (threads[t].pc = "done" /\ threads[t].object # NoObject
             /\ threads[t].object.path \in DOMAIN objects.held)
          => threads[t].object.gen = objects.held[threads[t].object.path]

\* C16: after construction and after every re-scan no path stands twice
\* in the list of a key (and no key stands twice in the index).
C16_NoDuplicatePairs ==
    \A i \in 1..Len(lut_index) :
        /\ \A j \in 1..Len(lut_index) : lut_index[i].key = lut_index[j].key => i = j
        /\ \A m, n \in 1..Len(lut_index[i].paths) :
               lut_index[i].paths[m] = lut_index[i].paths[n] => m = n

\* A re-scan has just registered two files under one key.
C16_Witness ==
    /\ last.op = "build_index"
    /\ HasKey(lut_index, Lower(Basename(PathSLog)))
    /\ Len(IndexAt(lut_index, Lower(Basename(PathSLog)))) = 2
    /\ cache # <<>>

\* The (key, path) pairs of an index.
IndexPairs(idx) ==
    UNION {{<<idx[i].key, idx[i].paths[j]>> : j \in 1..Len(idx[i].paths)} :
              i \in 1..Len(idx)}

\* The files on disk whose name ends in ".cube", in any letter case.
LutFiles == {f \in DOMAIN files : EndsWith(Lower(Basename(f)), CubeExt)}

\* C17: after _build_index the index holds exactly the pairs (lowercased
\* basename, path) of the files under lut_dir whose name ends in ".cube" in
\* any letter case, every key is lowercase, list_luts returns exactly those
\* paths, once each, and a missing root leaves the index empty.
C17_IndexExact ==
    (last.op = "build_index") =>
        LET listed == ListLutsResult(lut_index)
        IN  /\ IndexPairs(lut_index)
                 = {<<Lower(Basename(f)), f>> : f \in IF rootExists THEN LutFiles ELSE {}}
            /\ \A i \in 1..Len(lut_index) : lut_index[i].key = Lower(lut_index[i].key)
            /\ {listed[i] : i \in 1..Len(listed)} = LutFiles
            /\ Len(listed) = Cardinality(LutFiles)
            /\ ~rootExists => lut_index = EmptyIndex

\* A re-scan of a directory with a.txt, two files of one lowercased name
\* and Raw.CUBE in a subdirectory: three paths under two keys.
C17_Witness ==
    /\ last.op = "build_index"
    /\ DOMAIN files = Paths
    /\ Len(lut_index) = 2
    /\ IndexAt(lut_index, Lower(Basename(PathRaw))) = <<PathRaw>>
    /\ Len(ListLutsResult(lut_index)) = 3

\* A re-scan after the root was removed, by an engine that had applied a
\* LUT before: the index is empty.
C17_WitnessNoRoot ==
    /\ last.op = "build_index"
    /\ ~rootExists
    /\ cache # <<>>
    /\ lut_index = EmptyIndex

\* Every grading parameter at its identity value and intensity 0.
IdentityArgs(a) ==
    /\ a.image_opens
    /\ a.intensity = Num(0)
    /\ a.brightness = Num(100) /\ a.contrast = Num(100) /\ a.saturation = Num(100)
    /\ a.temperature = Num(0) /\ a.tint = Num(0)
    /\ a.curve = "Linear" /\ a.sharpness = Num(100)

\* The image has the pixels of the opened source image: nothing was done to
\* it, or a LUT was blended in with weight 0 (Image.blend then returns a
\* copy of its first image).
PixelIdentical(image) ==
    /\ ~image.null
    /\ \/ image.ops = <<>>
       \/ /\ Len(image.ops) = 2
          /\ image.ops[1].op = "Filter"
          /\ image.ops[2].op = "Blend" /\ image.ops[2].a = 0

\* C20: with every grading parameter at its identity value and intensity
\* 0, apply_lut returns a pixel-identical copy of the source image, whether
\* the identifier resolves, does not resolve, or resolves to a file that
\* cannot be read.
C20_IdentityReturnsCopy ==
    (Applied /\ IdentityArgs(last.args)) => PixelIdentical(last.out.image)

\* The last call resolved a LUT and its intensity, after clamp and guard,
\* is 0.
ZeroIntensity ==
    /\ ReachedResolution
    /\ last.out.target # <<>>
    /\ last.out.alpha = 0

\* C21: at an effective intensity of 0 the LUT stage short-circuits: the
\* LUT file is not loaded, the image is not filtered, and the outcome does
\* not depend on whether the resolved file can be read.
C21_ZeroIntensityShortCircuits ==
    (Applied /\ ZeroIntensity)
        => /\ last.out.load = "none"
           /\ ~Filtered(last.out.image)
           /\ last.out.status # StatusCorrupt

\* The place of a tone correction in the order white balance, brightness,
\* contrast, saturation; 0 for any other operation.
ToneRank(name) ==
    IF name = "WhiteBalance" THEN 1
    ELSE IF name = "Brightness" THEN 2
    ELSE IF name = "Contrast" THEN 3
    ELSE IF name = "Color" THEN 4
    ELSE 0

\* C22: the tone corrections that are not at identity are applied in the
\* order white balance, brightness, contrast, saturation.
C22_ToneOrder ==
    (Applied /\ ~last.out.image.null)
        => \A i, j \in 1..Len(last.out.image.ops) :
              LET ri == ToneRank(last.out.image.ops[i].op)
                  rj == ToneRank(last.out.image.ops[j].op)
              IN  (i < j /\ ri # 0 /\ rj # 0) => ri < rj

\* The stage an operation on the image belongs to: 1 tone, 2 curve,
\* 3 LUT filter, 4 blend, 5 sharpness.
StageRank(name) ==
    IF ToneRank(name) # 0 THEN 1
    ELSE IF name = "Curve" THEN 2
    ELSE IF name = "Filter" THEN 3
    ELSE IF name = "Blend" THEN 4
    ELSE 5

\* How many operations named name the image went through.
OpCount(image, name) ==
    Cardinality({i \in 1..Len(image.ops) : image.ops[i].op = name})

\* The position of s in the sequence q, 0 when it is not there.
Position(q, s) ==
    IF \E i \in 1..Len(q) : q[i] = s
    THEN CHOOSE i \in 1..Len(q) : q[i] = s /\ \A j \in 1..(i - 1) : q[j] # s
    ELSE 0

\* C23: in every run of apply_lut that applies a LUT the operations on the
\* image come in the order tone, curve, LUT filter, blend, sharpness, each
\* at most once; the filter uses the path the resolution of this call
\* found; the blend uses the intensity the guard has left; the curve is
\* logged before the guard warns; and sharpness is the last operation, on
\* the blended image.
C23_StagesInOrder ==
    (last.op \in {"apply_lut", "plan"} /\ last.out.status = StatusSuccess)
        => LET ops == last.out.image.ops
               n == Len(ops)
           IN  /\ \A i, j \in 1..n :
                     i < j => StageRank(ops[i].op) <= StageRank(ops[j].op)
               /\ \A name \in {"Brightness", "WhiteBalance", "Contrast", "Color",
                               "Curve", "Blend", "Sharpness"} :
                     OpCount(last.out.image, name) <= 1
               /\ OpCount(last.out.image, "Filter") = 1
               /\ \A i \in 1..n :
                     ops[i].op = "Filter"
                        => ops[i].lut = Resolve(lut_index, last.args.lut_name_or_path).path
               /\ \A i \in 1..n :
                     ops[i].op = "Blend"
                        => /\ ops[i].a = Governor(last.out.target,
                                            ClampIntensity(Float(last.args.intensity)))
                           /\ ops[i].a = last.out.alpha
               /\ \A i \in 1..n :
                     ops[i].op = "Sharpness"
                        => i = n /\ \E j \in 1..(i - 1) : ops[j].op = "Filter"
               /\ (Position(last.out.logs, "debug:curve") # 0
                     /\ Position(last.out.logs, "warn:log_lut") # 0)
                    => Position(last.out.logs, "debug:curve")
                         < Position(last.out.logs, "warn:log_lut")

\* A fully graded call that resolved a log LUT: every stage acted, the
\* guard lowered 0.9 to 0.35 and the blend used 0.35.
C23_Witness ==
    /\ Applied
    /\ last.out.status = StatusSuccess
    /\ Len(last.out.image.ops) = 8
    /\ last.args.intensity = Num(90)
    /\ last.out.alpha = SafeIntensity
    /\ last.out.image.ops[7].op = "Blend"
    /\ last.out.image.ops[8].op = "Sharpness"
    /\ last.out.logs = <<"debug:curve", "warn:log_lut">>

\* floor(0.8 * (x - 128)) for x >= 128
FloorEightTenths(x) == (8 * (x - 128)) \div 10

\* C24: the Soft-High table maps every x in 0..127 to x and every x in
\* 128..255 to 128 + floor(0.8 * (x - 128)); its three runs of 256 entries
\* are the same table; it is non-decreasing with every entry in 0..255;
\* and a pixel sent through Soft-High comes out with each channel mapped
\* so.
C24_SoftHighTable ==
    LET table == CurveTable("Soft-High")
        expected(x) == IF x < 128 THEN x ELSE 128 + FloorEightTenths(x)
    IN  /\ DOMAIN table = 0..767
        /\ \A x \in 0..255 :
              /\ table[x] = expected(x)
              /\ table[256 + x] = table[x]
              /\ table[512 + x] = table[x]
              /\ table[x] \in 0..255
        /\ \A x \in 0..254 : table[x] <= table[x + 1]
        /\ (pixel # NoPixel /\ pixel.curve = "Soft-High")
              => \A c \in 1..3 : pixel.out[c] = expected(pixel.in[c])

\* A pixel went through Soft-High: 129 became 128, 127 stayed, 255 became
\* 229.
C24_Witness ==
    /\ pixel # NoPixel
    /\ pixel.curve = "Soft-High"
    /\ pixel.in = <<129, 127, 255>>
    /\ pixel.out = <<128, 127, 229>>

\* C25: the index changes only in _build_index: no call of apply_lut,
\* direct or with a plan, and no call of list_luts adds, removes or
\* reorders a key or a path of the index, whether the identifier is found
\* on disk, in the index, by the fuzzy step or not at all.
C25_IndexOnlyRescanned ==
    [][(Waiting /\ last'.op \in {"apply_lut", "plan", "list_luts"})
          => lut_index' = lut_index]_vars

\* A call has just resolved its identifier by the fuzzy step, against an
\* index of two keys.
C25_Witness ==
    /\ Applied
    /\ last.out.steps = <<"exists", "index", "fuzzy">>
    /\ last.out.target # <<>>
    /\ Len(lut_index) = 2

\* A call has just found nothing, against an index that holds keys.
C25_WitnessMiss ==
    /\ Applied
    /\ last.out.status = StatusNotFound
    /\ last.out.steps = <<"exists", "index", "fuzzy">>
    /\ lut_index # EmptyIndex

\* The intensity the last call asked for, clamped to [0, 1].
ClampedRequest == ClampIntensity(Float(last.args.intensity))

\* C26: the guard never raises the intensity and leaves unmarked LUTs
\* alone: the intensity after the guard is at most the intensity asked
\* for clamped to [0, 1], and equals it whenever the resolved file's name
\* does not contain "log".
C26_GovernorOnlyLowers ==
    (last.op \in {"apply_lut", "plan"} /\ last.out.alpha # 0 - 1)
        => /\ last.out.alpha <= ClampedRequest
           /\ ~IsLogLut(last.out.target) => last.out.alpha = ClampedRequest

\* The guard acted: 0.9 was asked of a log LUT, 0.35 was used.
C26_Witness ==
    /\ Applied
    /\ last.out.status = StatusSuccess
    /\ IsLogLut(last.out.target)
    /\ last.args.intensity = Num(90)
    /\ last.out.alpha = SafeIntensity

\* An unmarked LUT was applied with the 0.9 that was asked for.
C26_WitnessUnmarked ==
    /\ Applied
    /\ last.out.status = StatusSuccess
    /\ ~IsLogLut(last.out.target)
    /\ last.args.intensity = Num(90)
    /\ last.out.alpha = 90

\* A log LUT below the threshold: 0.35 asked for, 0.35 used.
C26_WitnessBelow ==
    /\ Applied
    /\ last.out.status = StatusSuccess
    /\ IsLogLut(last.out.target)
    /\ last.args.intensity = Num(0)
    /\ last.out.alpha = 0

\* The file the last call resolved can be parsed.
TargetReadable == LoadCubeFile(last.out.target)

\* C27: a failed load leaves the cache unchanged: when _get_lut_object
\* raises, the path is not stored, no entry is evicted and the order of
\* the entries stays; the same call made again loads the file anew, never
\* answering from the cache, and succeeds once the file can be parsed.
C27_FailedLoadNotCached ==
    [][/\ (last'.op \in {"apply_lut", "retry"} /\ last'.out.load = "raised")
            => /\ cache' = cache
               /\ objects' = objects
               /\ \A i \in 1..Len(cache') : cache'[i] # last'.out.target
               /\ last'.out.status = StatusCorrupt
       /\ (LoadRaised /\ last'.op = "retry" /\ files' = files)
            => /\ last'.out.target = last.out.target
               /\ last'.out.load # "hit"
               /\ TargetReadable' <=> last'.out.load = "miss"
               /\ TargetReadable' => last'.out.status = StatusSuccess
      ]_vars

\* A load raised while the cache held another LUT, the file was written
\* anew, and the same call made again has loaded it: both are cached.
C27_Witness ==
    /\ last.op = "retry"
    /\ last.out.status = StatusSuccess
    /\ last.out.load = "miss"
    /\ Len(cache) = 2
    /\ cache[2] = last.out.target

\* A load has raised while the cache held an entry, which it still holds.
C27_WitnessRaised ==
    /\ LoadRaised
    /\ Len(cache) = 1
    /\ files[Real(last.out.target)] = "bad"

\* An update or a restore has just returned.
VersionOp == versions # NoVersions /\ versions.op \in {"update_code", "restore_backup"}

\* The places in the writes of the last operation where SOURCE_FILE was
\* written (in full or not), and where a backup was written in full.
SourceWrites ==
    {i \in 1..Len(versions.writes) : versions.writes[i].file = "source"}
BackupWrites ==
    {i \in 1..Len(versions.writes) :
        versions.writes[i].file = "backup" /\ versions.writes[i].done}

\* C28: update_code and restore_backup write the source file only after
\* they have written, in the same operation, a backup that holds what the
\* source file held when the operation began; when no backup could be
\* written the source file holds what it held and the operation returns
\* False.
C28_BackupBeforeOverwrite ==
    VersionOp
        => /\ \A i \in SourceWrites :
                 \E j \in BackupWrites :
                    /\ j < i
                    /\ versions.writes[j].content = versions.before
                    /\ versions.backups[versions.writes[j].name] = versions.before
           /\ BackupWrites = {}
                 => /\ versions.source = versions.before
                    /\ versions.result = "False"
           /\ versions.result = "True" => SourceWrites # {}

\* An update has just replaced version 1 by version 2, with a backup of
\* version 1.
C28_Witness ==
    /\ VersionOp
    /\ versions.op = "update_code"
    /\ versions.result = "True"
    /\ versions.before = 1
    /\ versions.source = 2
    /\ Len(versions.writes) = 2

\* A restore has just brought version 1 back over version 2.
C28_WitnessRestore ==
    /\ VersionOp
    /\ versions.op = "restore_backup"
    /\ versions.result = "True"
    /\ versions.before = 2
    /\ versions.source = 1

\* An update whose reason holds a "/" has just failed to make its backup.
C28_WitnessNoBackup ==
    /\ VersionOp
    /\ versions.op = "update_code"
    /\ versions.result = "False"
    /\ versions.writes = <<>>
    /\ versions.backups # <<>>

\* An update has just failed to make its backup on a full disk: the backup
\* is there cut short, the source file is as it was.
C28_WitnessCutShort ==
    /\ VersionOp
    /\ versions.op = "update_code"
    /\ versions.result = "False"
    /\ Len(versions.writes) = 1
    /\ versions.writes[1].file = "backup"
    /\ ~versions.writes[1].done
    /\ versions.backups[versions.writes[1].name] = 0
    /\ versions.source = versions.before

\* The program a command names: the first word of the command, in lower
\* case.
ProgramName(command) ==
    LET s == Strip(Lower(command))
        blanks == {i \in 1..Len(s) : s[i] = " "}
        end == IF blanks = {} THEN Len(s)
               ELSE (CHOOSE i \in blanks : \A j \in blanks : i <= j) - 1
    IN  SubSeq(s, 1, end)

\* C29: execute_safe_command runs a command only when its program name is
\* one of the whitelisted commands: any other command is answered with the
\* interception message and starts no subprocess, now or earlier.
C29_OnlyWhitelistedRun ==
    shell # NoShell
        => /\ (shell.op = "execute" /\ ProgramName(shell.command) \notin AllowedCommands)
                 => ~shell.ran /\ shell.reply = "intercepted"
           /\ \A i \in 1..Len(shell.started) :
                 ProgramName(shell.started[i]) \in AllowedCommands

\* add_preference has just been called.
Added == memory # NoMemory /\ memory.op = "add_preference"

\* C30: add_preference is idempotent: the preference list never holds a
\* text twice; adding a text that is there returns the "already exists"
\* reply and changes neither the list nor the memory file; adding a new
\* text appends it, and when the call returns the file holds the whole
\* list.
C30_AddPreferenceIdempotent ==
    memory # NoMemory
        => /\ NoDuplicates(memory.data)
           /\ (Added /\ memory.text \in Elements(memory.before.data))
                 => /\ memory.reply = "exists"
                    /\ memory.data = memory.before.data
                    /\ memory.file = memory.before.file
           /\ (Added /\ memory.text \notin Elements(memory.before.data))
                 => /\ memory.data = Append(memory.before.data, memory.text)
                    /\ memory.reply \in {"written", "raised"}
                    /\ memory.reply = "written" => memory.file = ListFile(memory.data)

\* A text already in a list of two was added again.
C30_Witness ==
    /\ Added
    /\ memory.reply = "exists"
    /\ Len(memory.data) = 2
    /\ memory.file = ListFile(memory.data)

\* A new text was added to a list of two and the three were written.
C30_WitnessNew ==
    /\ Added
    /\ memory.reply = "written"
    /\ Len(memory.before.data) = 2
    /\ Len(memory.file.prefs) = 3

====
